---- MODULE Spec2Model ----
(***************************************************************************)
(* Model of the chat pipeline of Chatbot-BE: the streaming and the         *)
(* non-streaming chat exchange (app/api/chat.py), the completion-provider  *)
(* wrapper and its context truncation (app/services/openai_service.py)     *)
(* and the tool dispatcher (app/services/tools.py), with the document      *)
(* splitter (app/services/document_splitter.py) and the vector store       *)
(* (app/services/vector_store.py).                                         *)
(*                                                                         *)
(* Strings are sequences of pieces [t |-> tag, n |-> number of chars]:     *)
(* concatenation is \o and len() is the sum of the n fields. An optional   *)
(* value is a sequence of length at most one (<<>> is Python's None).      *)
(***************************************************************************)
EXTENDS Integers, Sequences, FiniteSets, TLC

VARIABLES
    \* ---- structured store (app/database/models.py)
    conversations,      \* ids of the Conversation rows of the calling tenant
    db_messages,        \* Message rows in created_at order
    prompt,             \* the tenant's active default Prompt, optional
    \* ---- one chat exchange per id (locals of the handler in app/api/chat.py)
    request,            \* ChatRequest and entry point of the exchange
    pc,                 \* position of the handler / event generator
    conversation_id,    \* local conversation_id
    messages,           \* local messages list
    assistant_message,  \* local assistant_message buffer
    tool_calls_buffer,  \* local tool_calls_buffer / response["tool_calls"]
    tool_messages,      \* tool_messages being built by process_tool_calls
    chunk,              \* the chunk whose handling is suspended at a yield
    events,             \* events handed to the response stream, in order
    \* ---- completion provider, as seen from outside the handler
    sent,               \* message lists of the completion requests issued
    stream,             \* per exchange: state of the 1st and 2nd provider stream
    delivered,          \* per exchange: items delivered by each provider stream
    fault,              \* per exchange: the failure injected, "" when none
    dispatched,         \* per exchange: the calls process_tool_calls went through
    rounds,             \* per exchange: calls of process_tool_calls
    limits,             \* what the provider may deliver in this configuration
    \* ---- direct calls of truncate_messages
    t_messages, t_max_tokens, t_result,
    \* ---- a direct call of ToolsService.execute_tool
    dispatch,           \* its tool_name and arguments, and its result once made
    \* ---- a call of DocumentSplitter.split_document
    splitter,           \* its parameters, its locals and its position
    \* ---- the VectorStore instance (app/services/vector_store.py)
    vector_store        \* the backend's collections, the cache, the last call

vars == <<conversations, db_messages, prompt, request, pc, conversation_id,
          messages, assistant_message, tool_calls_buffer, tool_messages, chunk,
          events, sent, stream, delivered, fault, dispatched, rounds,
          limits, t_messages, t_max_tokens, t_result, dispatch, splitter,
          vector_store>>

chatVars == <<conversations, db_messages, prompt, request, pc, conversation_id,
              messages, assistant_message, tool_calls_buffer, tool_messages,
              chunk, events, sent, stream, delivered, fault, dispatched, rounds,
              limits>>

truncVars == <<t_messages, t_max_tokens, t_result>>

toolVars == <<dispatch>>

splitVars == <<splitter>>

vectorVars == <<vector_store>>

(***************************************************************************)
(* Bounds                                                                  *)
(***************************************************************************)
MaxChunks == 2        \* items one provider stream delivers before it ends
MaxFragments == 2     \* tool-call fragments one provider stream delivers
MaxCalls == 2         \* tool calls of one non-streaming response
MaxTail == 3          \* non-system messages in a direct truncate_messages call
MaxBudget == 4        \* largest max_tokens of a direct truncate_messages call

(***************************************************************************)
(* Strings and Python list helpers                                         *)
(***************************************************************************)
Str(tag, n) == << [t |-> tag, n |-> n] >>

EmptyStr == << >>

RECURSIVE StrLen(_)
StrLen(s) == IF s = << >> THEN 0 ELSE s[1].n + StrLen(Tail(s))

\* list.insert(i, x): a negative index counts from the end, and an index
\* outside the list is clamped to its nearest end
ListInsert(l, i, x) ==
    LET j == IF i < 0 THEN (IF i + Len(l) < 0 THEN 0 ELSE i + Len(l))
             ELSE (IF i > Len(l) THEN Len(l) ELSE i)
    IN  SubSeq(l, 1, j) \o <<x>> \o SubSeq(l, j + 1, Len(l))

(***************************************************************************)
(* OpenAIService.get_token_count and truncate_messages                     *)
(***************************************************************************)
get_token_count(text) == StrLen(text) \div 4

DefaultMaxTokens == 16000

\* the same loop with `continue` in place of `break`
RECURSIVE TruncateLoop_Continue(_, _, _, _)
TruncateLoop_Continue(rest, total_tokens, truncated_messages, max_tokens) ==
    IF rest = << >> THEN truncated_messages
    ELSE LET message == rest[Len(rest)]
             message_tokens == get_token_count(message.content)
             older == SubSeq(rest, 1, Len(rest) - 1)
         IN  IF total_tokens + message_tokens > max_tokens
             THEN TruncateLoop_Continue(older, total_tokens, truncated_messages,
                                        max_tokens)
             ELSE TruncateLoop_Continue(older, total_tokens + message_tokens,
                      ListInsert(truncated_messages,
                                 IF truncated_messages # << >>
                                 THEN 0 - Len(truncated_messages) ELSE 0,
                                 message),
                      max_tokens)

\* for message in reversed(messages): rest holds the messages not visited yet
RECURSIVE TruncateLoop(_, _, _, _)
TruncateLoop(rest, total_tokens, truncated_messages, max_tokens) ==
    IF rest = << >> THEN truncated_messages
    ELSE LET message == rest[Len(rest)]
             message_tokens == get_token_count(message.content)
         IN  IF total_tokens + message_tokens > max_tokens
             THEN truncated_messages
             ELSE TruncateLoop(SubSeq(rest, 1, Len(rest) - 1),
                      total_tokens + message_tokens,
                      ListInsert(truncated_messages,
                                 IF truncated_messages # << >>
                                 THEN 0 - Len(truncated_messages) ELSE 0,
                                 message),
                      max_tokens)

truncate_messages(msgs, max_tokens) ==
    IF msgs # << >> /\ msgs[1].role = "system"
    THEN TruncateLoop(Tail(msgs), get_token_count(msgs[1].content),
                      <<msgs[1]>>, max_tokens)
    ELSE TruncateLoop(msgs, 0, << >>, max_tokens)


(***************************************************************************)
(* Tool calls and their argument text                                      *)
(***************************************************************************)
NoneStr == "None"     \* Python's None where the code holds an id or a name

LB == Str("{", 1)
RB == Str("}", 1)
QueryPair == Str("query:q", 12)
ProductPair == Str("product_id:p1", 19)

ArgsQuery == LB \o QueryPair \o RB         \* {"query": "q"}
ArgsEmpty == LB \o RB                      \* {}
ArgsProduct == LB \o ProductPair \o RB     \* {"product_id": "p1"}
ArgsBroken == LB \o QueryPair              \* {"query": "q"   (cut short)

\* json.loads: the dict a text denotes, or a JSONDecodeError
json_loads(text) ==
    CASE text = ArgsQuery   -> [ok |-> TRUE, value |-> [query |-> "q"]]
      [] text = ArgsEmpty   -> [ok |-> TRUE, value |-> << >>]
      [] text = ArgsProduct -> [ok |-> TRUE, value |-> [product_id |-> "p1"]]
      [] OTHER              -> [ok |-> FALSE, error |-> "JSONDecodeError"]

\* a tool call as the provider hands it over: complete in a non-streaming
\* response, one fragment of it in a streaming delta (id and name are None
\* on every fragment but the first of its call)
ToolCall(index, id, name, arguments) ==
    [index |-> index, id |-> id, function |-> [name |-> name, arguments |-> arguments]]

CallId(i) == <<"call_1", "call_2", "call_3", "call_4", "call_5", "call_6">>[i]

(***************************************************************************)
(* ToolsService (app/services/tools.py)                                    *)
(***************************************************************************)
available_tools ==
    {"search_knowledge", "search_products", "get_product_details",
     "search_products_by_category", "check_product_availability"}

\* keyword parameters a handler requires / accepts besides tenant_id and db
RequiredParams(name) ==
    CASE name = "search_knowledge"            -> {"query"}
      [] name = "search_products"             -> {"query"}
      [] name = "get_product_details"         -> {"product_id"}
      [] name = "search_products_by_category" -> {"category"}
      [] name = "check_product_availability"  -> {"product_id"}

AcceptedParams(name) ==
    CASE name = "search_knowledge"            -> {"query", "limit"}
      [] name = "search_products"             ->
            {"query", "category", "min_price", "max_price", "limit"}
      [] name = "get_product_details"         -> {"product_id"}
      [] name = "search_products_by_category" -> {"category", "limit"}
      [] name = "check_product_availability"  -> {"product_id"}

\* what the handler's lookups may do: "hit"/"miss" are answers of the stores,
\* the *_error outcomes are exceptions of the embedding provider, the vector
\* store and the structured store; "hit_object" is a hit whose row attribute
\* `metadata` is not a JSON value
LookupOutcomes(name) ==
    CASE name = "search_knowledge" ->
            {"hit", "hit_object", "miss", "embedding_error", "vector_error"}
      [] name = "search_products" ->
            {"hit", "miss", "embedding_error", "vector_error", "db_error"}
      [] name = "get_product_details" -> {"hit", "hit_object", "miss", "db_error"}
      [] name = "search_products_by_category" -> {"hit", "miss", "db_error"}
      [] name = "check_product_availability" -> {"hit", "miss", "db_error"}

LookupFailures == {"embedding_error", "vector_error", "db_error"}

PyList(items) == [list |-> items]
PyNone == [none |-> TRUE]

\* every handler catches its own exceptions and returns an empty answer
search_knowledge(arguments, outcome) ==
    CASE outcome = "hit" -> PyList(<< [id |-> "k1", metadata |-> "json"] >>)
      [] outcome = "hit_object" -> PyList(<< [id |-> "k1", metadata |-> "object"] >>)
      [] OTHER -> PyList(<< >>)

search_products(arguments, outcome) ==
    IF outcome = "hit" THEN PyList(<< [id |-> "p1", high_relevance |-> TRUE] >>)
    ELSE PyList(<< >>)

get_product_details(arguments, outcome) ==
    CASE outcome = "hit" -> [id |-> arguments.product_id, metadata |-> "json"]
      [] outcome = "hit_object" -> [id |-> arguments.product_id, metadata |-> "object"]
      [] OTHER -> PyNone

search_products_by_category(arguments, outcome) ==
    IF outcome = "hit" THEN PyList(<< [id |-> "p1", high_relevance |-> FALSE] >>)
    ELSE PyList(<< >>)

check_product_availability(arguments, outcome) ==
    CASE outcome = "hit" -> [available |-> TRUE, product_name |-> arguments.product_id]
      [] outcome = "miss" -> [available |-> FALSE, message |-> "Product not found"]
      [] OTHER -> [available |-> FALSE, message |-> "Error checking availability"]

Handler(name, arguments, outcome) ==
    CASE name = "search_knowledge" -> search_knowledge(arguments, outcome)
      [] name = "search_products" -> search_products(arguments, outcome)
      [] name = "get_product_details" -> get_product_details(arguments, outcome)
      [] name = "search_products_by_category" ->
            search_products_by_category(arguments, outcome)
      [] name = "check_product_availability" ->
            check_product_availability(arguments, outcome)

\* arguments["tenant_id"] = ... needs a dict; json.loads may also have
\* yielded a list, written PyList(...)
IsDict(arguments) == DOMAIN arguments # {"list"}

\* handler(**arguments) binds: every required keyword given, none unexpected
\* (tenant_id and db are parameters of every handler)
Binds(name, arguments) ==
    /\ RequiredParams(name) \subseteq DOMAIN arguments
    /\ DOMAIN arguments \ {"tenant_id", "db"} \subseteq AcceptedParams(name)

\* does execute_tool reach the handler call with arguments that bind
Invokes(tool_name, arguments) ==
    tool_name \in available_tools /\ IsDict(arguments) /\ Binds(tool_name, arguments)

\* execute_tool that takes a tool it does not know for one that answered
execute_tool_AnswersUnknown(tool_name, arguments, outcome) ==
    IF tool_name \notin available_tools
    THEN [success |-> TRUE, data |-> PyNone]
    ELSE IF ~ IsDict(arguments) \/ ~ Binds(tool_name, arguments)
         THEN [error |-> "TypeError"]
         ELSE [success |-> TRUE, data |-> Handler(tool_name, arguments, outcome)]

\* the whole body is inside try/except Exception: nothing is raised past it
execute_tool(tool_name, arguments, outcome) ==
    IF tool_name \notin available_tools
    THEN [error |-> "Tool not found"]
    ELSE IF ~ IsDict(arguments) \/ ~ Binds(tool_name, arguments)
         THEN [error |-> "TypeError"]
         ELSE [success |-> TRUE, data |-> Handler(tool_name, arguments, outcome)]

\* get_tool_definitions: the parameter schema announced to the provider.
\* Argument values are written as text; those of IntegerValues are ints.
SchemaProperties(name) ==
    CASE name = "search_knowledge" -> [query |-> "string", limit |-> "integer"]
      [] name = "search_products" ->
            [query |-> "string", category |-> "string", min_price |-> "number",
             max_price |-> "number", limit |-> "integer"]
      [] name = "get_product_details" -> [product_id |-> "string"]
      [] name = "search_products_by_category" ->
            [category |-> "string", limit |-> "integer"]
      [] name = "check_product_availability" -> [product_id |-> "string"]

SchemaRequired(name) ==
    CASE name = "search_knowledge"            -> {"query"}
      [] name = "search_products"             -> {"query"}
      [] name = "get_product_details"         -> {"product_id"}
      [] name = "search_products_by_category" -> {"category"}
      [] name = "check_product_availability"  -> {"product_id"}

IntegerValues == {"5"}

JsonType(value) == IF value \in IntegerValues THEN "integer" ELSE "string"

\* a JSON integer is also a JSON number
HasType(value, type) ==
    JsonType(value) = type \/ (type = "number" /\ JsonType(value) = "integer")

\* json.dumps(result): raises TypeError on a value that is not a JSON value
Serializable(result) ==
    IF "data" \notin DOMAIN result THEN TRUE
    ELSE LET d == result.data
         IN  IF "list" \in DOMAIN d
             THEN \A i \in 1..Len(d.list) :
                    ("metadata" \in DOMAIN d.list[i]) => d.list[i].metadata # "object"
             ELSE ("metadata" \in DOMAIN d) => d.metadata # "object"

json_dumps(result) == [json |-> result]

IsErrorPayload(content) == "error" \in DOMAIN content.json

ToolMessage(payload, id) ==
    [role |-> "tool", content |-> json_dumps(payload), tool_call_id |-> id]

\* one iteration of the loop of ChatService.process_tool_calls
ProcessToolCall(tool_call, outcome) ==
    LET function_name == tool_call.function.name
        parsed == json_loads(tool_call.function.arguments)
    IN  IF ~ parsed.ok
        THEN ToolMessage([error |-> parsed.error], tool_call.id)
        ELSE LET result == execute_tool(function_name, parsed.value, outcome)
             IN  IF Serializable(result)
                 THEN ToolMessage(result, tool_call.id)
                 ELSE ToolMessage([error |-> "TypeError"], tool_call.id)

\* the lookups a call can meet: none unless its handler is invoked
OutcomesOf(tool_call) ==
    LET parsed == json_loads(tool_call.function.arguments)
    IN  IF parsed.ok /\ Invokes(tool_call.function.name, parsed.value)
        THEN LookupOutcomes(tool_call.function.name)
        ELSE {"not_invoked"}


(***************************************************************************)
(* ChatService helpers (app/api/chat.py)                                   *)
(***************************************************************************)
ExchangeIds == {1, 2}

NoConv == "None"                      \* request.conversation_id is None
NewConvId(e) == <<"new_1", "new_2">>[e]

DefaultPrompt == Str("default_prompt", 492)
TenantPrompt == Str("tenant_prompt", 40)

get_system_prompt(db_prompt) ==
    IF db_prompt = << >> THEN DefaultPrompt ELSE db_prompt[1]

\* a Message row as save_message builds it; xid records the exchange that
\* wrote the row (0: a row that was there before) and is no column
Message(cid, role, content, metadata, xid) ==
    [conversation_id |-> cid, role |-> role, content |-> content,
     metadata |-> metadata, xid |-> xid]

\* rows of one conversation ordered by created_at, as role/content dicts
get_conversation_messages(cid, db) ==
    LET rows == SelectSeq(db, LAMBDA m : m.conversation_id = cid)
    IN  [i \in 1..Len(rows) |-> [role |-> rows[i].role, content |-> rows[i].content]]

Event(type, data) == [type |-> type, data |-> data]

ExceptionText(kind) == Str(kind, 16)

\* a provider stream whose generator is given up without being closed
DropStreams(st) == [i \in 1..2 |-> IF st[i] = "open" THEN "dropped" ELSE st[i]]

\* the locals of exchange e and the tables it writes, as one record
Cur(e) ==
    [e |-> e, mode |-> request[e].mode, pc |-> pc[e],
     conversation_id |-> conversation_id[e], messages |-> messages[e],
     assistant_message |-> assistant_message[e],
     tool_calls_buffer |-> tool_calls_buffer[e],
     tool_messages |-> tool_messages[e], chunk |-> chunk[e],
     events |-> events[e], sent |-> sent[e], stream |-> stream[e],
     delivered |-> delivered[e], fault |-> fault[e],
     dispatched |-> dispatched[e], rounds |-> rounds[e],
     db_messages |-> db_messages, conversations |-> conversations]

Apply(e, r) ==
    /\ pc' = [pc EXCEPT ![e] = r.pc]
    /\ conversation_id' = [conversation_id EXCEPT ![e] = r.conversation_id]
    /\ messages' = [messages EXCEPT ![e] = r.messages]
    /\ assistant_message' = [assistant_message EXCEPT ![e] = r.assistant_message]
    /\ tool_calls_buffer' = [tool_calls_buffer EXCEPT ![e] = r.tool_calls_buffer]
    /\ tool_messages' = [tool_messages EXCEPT ![e] = r.tool_messages]
    /\ chunk' = [chunk EXCEPT ![e] = r.chunk]
    /\ events' = [events EXCEPT ![e] = r.events]
    /\ sent' = [sent EXCEPT ![e] = r.sent]
    /\ stream' = [stream EXCEPT ![e] = r.stream]
    /\ delivered' = [delivered EXCEPT ![e] = r.delivered]
    /\ fault' = [fault EXCEPT ![e] = r.fault]
    /\ dispatched' = [dispatched EXCEPT ![e] = r.dispatched]
    /\ rounds' = [rounds EXCEPT ![e] = r.rounds]
    /\ db_messages' = r.db_messages
    /\ conversations' = r.conversations
    /\ UNCHANGED <<prompt, request, limits, truncVars, toolVars, splitVars, vectorVars>>

\* Raise with the buffer saved as an ordinary assistant turn on the way out
Raise_SavesBuffer(r, kind) ==
    [r EXCEPT !.pc = "ERROR", !.fault = kind, !.stream = DropStreams(@),
              !.db_messages = Append(@, Message(r.conversation_id, "assistant",
                                                r.assistant_message, << >>, r.e)),
              !.events = Append(@, Event("error", ExceptionText(kind)))]

\* except Exception as e: the streaming generator yields an error event that
\* carries str(e); the non-streaming handler raises HTTPException(500, str(e))
Raise(r, kind) ==
    [r EXCEPT !.pc = "ERROR", !.fault = kind, !.stream = DropStreams(@),
              !.events = Append(@, Event(IF r.mode = "stream" THEN "error" ELSE "http_500",
                                         ExceptionText(kind)))]

\* Complete with the assistant message saved a second time
Complete_SavesTwice(r) ==
    LET row == Message(r.conversation_id, "assistant", r.assistant_message, << >>, r.e)
    IN  {[r EXCEPT !.pc = "DONE", !.db_messages = Append(Append(@, row), row),
             !.events = Append(@, Event("done", Str("Stream completed", 16)))]}

\* "Save assistant message" and what follows it: the done event of the
\* streaming generator, the ChatResponse of the non-streaming handler (whose
\* validation of the provider's usage object is an exception of its own).
\* db.commit may fail in either.
Complete(r) ==
    LET row == Message(r.conversation_id, "assistant", r.assistant_message,
                       IF r.tool_calls_buffer # << >>
                       THEN << [tool_calls |-> r.tool_calls_buffer] >> ELSE << >>,
                       r.e)
        saved == [r EXCEPT !.db_messages = Append(@, row)]
    IN  {Raise(r, "persistence")}
        \cup
        (IF r.mode = "stream"
         THEN {[saved EXCEPT !.pc = "DONE", !.stream = DropStreams(@),
                    !.events = Append(@, Event("done", Str("Stream completed", 16)))]}
         ELSE {[saved EXCEPT !.pc = "DONE",
                    !.events = Append(@, Event("response", r.assistant_message))],
               Raise(saved, "response_validation")})


(***************************************************************************)
(* What the completion provider may deliver                                *)
(***************************************************************************)
KindKnowledge == [name |-> "search_knowledge", arguments |-> ArgsQuery]
KindUnknown == [name |-> "no_such_tool", arguments |-> ArgsEmpty]
KindAvailability == [name |-> "check_product_availability", arguments |-> ArgsProduct]
KindMissing == [name |-> "search_knowledge", arguments |-> ArgsEmpty]
KindBroken == [name |-> "search_knowledge", arguments |-> ArgsBroken]

AllKinds == {KindKnowledge, KindUnknown, KindAvailability, KindMissing, KindBroken}

FinishReasons == {NoneStr, "stop", "length", "tool_calls"}

ContentTags == << <<"a1", "a2", "a3", "a4", "a5", "a6">>,
                  <<"b1", "b2", "b3", "b4", "b5", "b6">> >>

TagsOf(k) == {ContentTags[k][i] : i \in 1..Len(ContentTags[k])}

\* the next content fragment of stream k (4 characters)
NextContent(text, k) ==
    Str(ContentTags[k][Cardinality({i \in 1..Len(text) : text[i].t \in TagsOf(k)}) + 1], 4)

IsHead(fragment) == fragment.id # NoneStr /\ fragment.function.arguments = LB

\* the tool-call fragments a streaming delta may carry after those in buf: a
\* complete call, the first fragment of a call, or the rest of the call
\* whose first fragment came last
NextFragments(buf, lim) ==
    LET n == Cardinality({i \in 1..Len(buf) : buf[i].id # NoneStr}) + 1
    IN  {ToolCall(n, CallId(n), k.name, k.arguments) : k \in lim.stream_kinds}
        \cup (IF lim.split THEN {ToolCall(n, CallId(n), "search_knowledge", LB)} ELSE {})
        \cup (IF buf # << >> /\ IsHead(buf[Len(buf)])
              THEN {ToolCall(buf[Len(buf)].index, NoneStr, NoneStr, QueryPair \o RB)}
              ELSE {})

\* chunk_data of chat_completion_stream: content "" when the delta has none,
\* tool_calls << >> (None) when the delta has none
Chunks(text, buf, k, lim) ==
    {[content |-> c, tool_calls |-> t, finish_reason |-> f] :
        c \in {EmptyStr, NextContent(text, k)},
        t \in {<< >>} \cup (IF Len(buf) < lim.fragments
                           THEN {<<x>> : x \in NextFragments(buf, lim)} ELSE {}),
        f \in FinishReasons}

\* the tool_calls of a non-streaming response: complete calls
CallLists(lim, n) ==
    UNION {{[i \in 1..len |-> ToolCall(i, CallId(i), ks[i].name, ks[i].arguments)] :
                ks \in [1..len -> lim.kinds]} : len \in 0..n}

Responses(k, lim, n) ==
    {[content |-> c, tool_calls |-> t] :
        c \in {<< >>, <<Str(ContentTags[k][1], 4)>>}, t \in CallLists(lim, n)}

\* content or ""
OrEmpty(content) == IF content = << >> THEN EmptyStr ELSE content[1]

(***************************************************************************)
(* The chat exchange: chat_stream.generate_response and chat_non_stream    *)
(***************************************************************************)
\* create_or_get_conversation, save of the user message, context assembly
\* and truncation; the streaming generator then yields the conversation id,
\* the non-streaming handler goes on to its first completion call
Begin(e) ==
    /\ pc[e] = "start"
    /\ LET req == request[e]
           r == Cur(e)
           cid == IF req.conversation_id # NoConv THEN req.conversation_id
                  ELSE NewConvId(e)
           created == [r EXCEPT !.conversations = @ \cup {cid}]
           row == Message(cid, "user", req.message, << >>, e)
           db == Append(db_messages, row)
           history == IF req.conversation_id # NoConv
                      THEN get_conversation_messages(req.conversation_id, db)
                      ELSE << >>
           msgs == truncate_messages(
                      <<[role |-> "system", content |-> get_system_prompt(prompt)]>>
                      \o history
                      \o <<[role |-> "user", content |-> req.message]>>,
                      DefaultMaxTokens)
           saved == [created EXCEPT !.db_messages = db, !.conversation_id = cid,
                                    !.messages = msgs]
       IN  \E n \in
             IF req.conversation_id # NoConv /\ req.conversation_id \notin conversations
             THEN {Raise(r, "not_found")}
             ELSE {Raise(r, "persistence"), Raise(created, "persistence"),
                   IF req.mode = "stream"
                   THEN [saved EXCEPT !.pc = "y_cid",
                            !.events = Append(@, Event("conversation_id", Str(cid, 36)))]
                   ELSE [saved EXCEPT !.pc = "a1", !.sent = Append(@, msgs)]} :
             Apply(e, n)

\* the generator is resumed after the conversation_id event and opens the
\* first completion stream
Request1(e) ==
    /\ pc[e] = "y_cid"
    /\ Apply(e, [Cur(e) EXCEPT !.pc = "s1", !.sent = Append(@, messages[e]),
                               !.stream[1] = "open"])

\* the rest of the body of the first `async for` once the content of the
\* chunk is handled
AfterContent1(r, ch) ==
    LET r1 == [r EXCEPT !.tool_calls_buffer = @ \o ch.tool_calls]
    IN  IF ch.finish_reason = "tool_calls"
        THEN {[r1 EXCEPT !.pc = "y_tools",
                  !.events = Append(@, Event("tool_calls", Str("Processing tools...", 19)))]}
        ELSE IF ch.finish_reason \in {"stop", "length"}
             THEN Complete(r1)
             ELSE {[r1 EXCEPT !.pc = "s1"]}

\* the first stream delivers a chunk
Item1(e) ==
    /\ pc[e] = "s1"
    /\ delivered[e].n[1] < limits.chunks
    /\ \E ch \in Chunks(assistant_message[e], tool_calls_buffer[e], 1, limits) :
         LET r == [Cur(e) EXCEPT !.delivered.n[1] = @ + 1]
         IN  \E n \in IF ch.content # EmptyStr
                      THEN {[r EXCEPT !.assistant_message = @ \o ch.content,
                                !.events = Append(@, Event("content", ch.content)),
                                !.chunk = <<ch>>, !.pc = "y_content1"]}
                      ELSE AfterContent1(r, ch) :
               Apply(e, n)

\* the generator is resumed after a content event of the first stream
Resume1(e) ==
    /\ pc[e] = "y_content1"
    /\ \E n \in AfterContent1([Cur(e) EXCEPT !.chunk = << >>], chunk[e][1]) :
         Apply(e, n)

\* the generator is resumed after the tool_calls event and enters
\* process_tool_calls
StartTools(e) ==
    /\ pc[e] = "y_tools"
    /\ Apply(e, [Cur(e) EXCEPT !.pc = "tools", !.rounds = @ + 1])

\* the first non-streaming completion returns
Response1(e) ==
    /\ pc[e] = "a1"
    /\ \E response \in Responses(1, limits, limits.calls) :
         LET r == [Cur(e) EXCEPT !.assistant_message = OrEmpty(response.content),
                                 !.delivered.n[1] = 1]
         IN  \E n \in IF response.tool_calls # << >>
                      THEN {[r EXCEPT !.tool_calls_buffer = response.tool_calls,
                                !.pc = "tools", !.rounds = @ + 1]}
                      ELSE Complete(r) :
               Apply(e, n)

\* one iteration of the loop of process_tool_calls
ToolStep(e) ==
    /\ pc[e] = "tools"
    /\ Len(tool_messages[e]) < Len(tool_calls_buffer[e])
    /\ LET tool_call == tool_calls_buffer[e][Len(tool_messages[e]) + 1]
       IN  \E outcome \in OutcomesOf(tool_call) :
             Apply(e, [Cur(e) EXCEPT
                 !.tool_messages = Append(@, ProcessToolCall(tool_call, outcome)),
                 !.dispatched = Append(@, [call |-> tool_call, outcome |-> outcome])])

\* FollowUp with the tool messages placed before the assistant tool-call turn
FollowUp_ResultsFirst(e) ==
    /\ pc[e] = "tools"
    /\ Len(tool_messages[e]) = Len(tool_calls_buffer[e])
    /\ LET msgs == messages[e]
                   \o tool_messages[e]
                   \o <<[role |-> "assistant", content |-> << >>,
                         tool_calls |-> tool_calls_buffer[e]]>>
       IN  Apply(e, [Cur(e) EXCEPT !.messages = msgs, !.sent = Append(@, msgs),
                        !.stream[2] = IF request[e].mode = "stream" THEN "open" ELSE @,
                        !.pc = IF request[e].mode = "stream" THEN "s2" ELSE "a2"])

\* process_tool_calls returns: the assistant tool-call turn and the tool
\* messages are added to messages and the second completion is requested
FollowUp(e) ==
    /\ pc[e] = "tools"
    /\ Len(tool_messages[e]) = Len(tool_calls_buffer[e])
    /\ LET msgs == messages[e]
                   \o <<[role |-> "assistant", content |-> << >>,
                         tool_calls |-> tool_calls_buffer[e]]>>
                   \o tool_messages[e]
       IN  Apply(e, [Cur(e) EXCEPT !.messages = msgs, !.sent = Append(@, msgs),
                        !.stream[2] = IF request[e].mode = "stream" THEN "open" ELSE @,
                        !.pc = IF request[e].mode = "stream" THEN "s2" ELSE "a2"])

\* AfterContent2 with a tool_calls finish reason starting another round
AfterContent2_SecondRound(r, ch) ==
    IF ch.finish_reason = "tool_calls"
    THEN {[r EXCEPT !.pc = "y_tools"]}
    ELSE IF ch.finish_reason \in {"stop", "length"}
         THEN {[r EXCEPT !.pc = "DONE"]}
         ELSE {[r EXCEPT !.pc = "s2"]}

\* the rest of the body of the second `async for`
AfterContent2(r, ch) ==
    IF ch.finish_reason \in {"stop", "length"}
    THEN Complete(r)
    ELSE {[r EXCEPT !.pc = "s2"]}

\* the follow-up stream delivers a chunk
Item2(e) ==
    /\ pc[e] = "s2"
    /\ delivered[e].n[2] < limits.chunks
    /\ \E ch \in Chunks(assistant_message[e], << >>, 2,
                        [limits EXCEPT !.stream_kinds = {KindKnowledge}, !.split = FALSE]) :
         LET r == [Cur(e) EXCEPT !.delivered.n[2] = @ + 1,
                      !.delivered.followup_tools =
                          @ \/ ch.tool_calls # << >> \/ ch.finish_reason = "tool_calls"]
         IN  \E n \in IF ch.content # EmptyStr
                      THEN {[r EXCEPT !.assistant_message = @ \o ch.content,
                                !.events = Append(@, Event("content", ch.content)),
                                !.chunk = <<ch>>, !.pc = "y_content2"]}
                      ELSE AfterContent2(r, ch) :
               Apply(e, n)

\* the generator is resumed after a content event of the follow-up stream
Resume2(e) ==
    /\ pc[e] = "y_content2"
    /\ \E n \in AfterContent2([Cur(e) EXCEPT !.chunk = << >>], chunk[e][1]) :
         Apply(e, n)

\* the second non-streaming completion returns
Response2(e) ==
    /\ pc[e] = "a2"
    /\ \E response \in Responses(2, [limits EXCEPT !.kinds = {KindKnowledge}], 1) :
         \E n \in Complete([Cur(e) EXCEPT
                     !.assistant_message = OrEmpty(response.content),
                     !.delivered.n[2] = 1,
                     !.delivered.followup_tools = response.tool_calls # << >>]) :
           Apply(e, n)

\* a provider stream delivers an item without choices: chat_completion_stream
\* passes nothing on and reads the next item
SkipItem(e) ==
    /\ pc[e] \in {"s1", "s2"}
    /\ LET k == IF pc[e] = "s1" THEN 1 ELSE 2
       IN  /\ delivered[e].n[k] < limits.chunks
           /\ Apply(e, [Cur(e) EXCEPT !.delivered.n[k] = @ + 1])

\* a provider stream is exhausted: the `async for` over it ends
StreamEnd(e) ==
    /\ pc[e] \in {"s1", "s2"}
    /\ LET k == IF pc[e] = "s1" THEN 1 ELSE 2
       IN  \E n \in Complete([Cur(e) EXCEPT !.stream[k] = "ended"]) : Apply(e, n)

\* ProviderFail with the exception swallowed: the exchange ends and no
\* event tells the client
ProviderFail_Silent(e) ==
    /\ pc[e] \in {"s1", "s2", "a1", "a2"}
    /\ LET k == IF pc[e] = "s1" THEN 1 ELSE 2
       IN  Apply(e, [Cur(e) EXCEPT
                        !.stream = DropStreams([@ EXCEPT ![k] =
                                      IF pc[e] \in {"s1", "s2"} THEN "failed" ELSE @]),
                        !.pc = "ERROR", !.fault = "provider"])

\* the provider fails: on opening a stream, while it is read, or in a
\* non-streaming completion call
ProviderFail(e) ==
    /\ pc[e] \in {"s1", "s2", "a1", "a2"}
    /\ LET k == IF pc[e] = "s1" THEN 1 ELSE 2
       IN  Apply(e, Raise([Cur(e) EXCEPT
                              !.stream[k] = IF pc[e] \in {"s1", "s2"} THEN "failed" ELSE @],
                          "provider"))

\* the client disconnects while the generator is suspended: the generator is
\* cancelled at that point (CancelledError / GeneratorExit pass `except
\* Exception`) and nothing of it runs any more
Cancel(e) ==
    /\ request[e].mode = "stream"
    /\ pc[e] \in {"y_cid", "s1", "y_content1", "y_tools", "tools", "s2", "y_content2"}
    /\ Apply(e, [Cur(e) EXCEPT !.pc = "CANCELLED", !.fault = "cancelled",
                               !.stream = DropStreams(@)])

Step(e) ==
    \/ Begin(e)
    \/ Request1(e)
    \/ Item1(e)
    \/ Resume1(e)
    \/ StartTools(e)
    \/ Response1(e)
    \/ ToolStep(e)
    \/ FollowUp(e)
    \/ Item2(e)
    \/ Resume2(e)
    \/ Response2(e)
    \/ SkipItem(e)
    \/ StreamEnd(e)
    \/ ProviderFail(e)
    \/ Cancel(e)

Next == \E e \in ExchangeIds : Step(e)

(***************************************************************************)
(* Initial states                                                          *)
(***************************************************************************)
UserTag(e) == <<"u1", "u2">>[e]

SmallLen == 8
BigLen == 40000       \* 10000 tokens: two of them exceed DefaultMaxTokens

SmallHistory ==
    <<Message("c1", "user", Str("u0", SmallLen), << >>, 0),
      Message("c1", "assistant", Str("r0", SmallLen), << >>, 0)>>

BigHistory ==
    <<Message("c1", "user", Str("u0", BigLen), << >>, 0),
      Message("c1", "assistant", Str("r0", BigLen), << >>, 0)>>

\* the stores and the request an exchange starts from
Scenarios ==
    {[prompt |-> << >>, history |-> << >>, conversation_id |-> NoConv, len |-> SmallLen],
     [prompt |-> <<TenantPrompt>>, history |-> SmallHistory, conversation_id |-> "c1",
      len |-> SmallLen],
     [prompt |-> << >>, history |-> BigHistory, conversation_id |-> "c1", len |-> SmallLen],
     [prompt |-> << >>, history |-> BigHistory, conversation_id |-> "c1", len |-> BigLen],
     [prompt |-> << >>, history |-> << >>, conversation_id |-> "cX", len |-> SmallLen]}

IdleRequest == [mode |-> "sync", conversation_id |-> NoConv, message |-> EmptyStr]

InitLocals(active) ==
    /\ pc = [e \in ExchangeIds |-> IF e \in active THEN "start" ELSE "off"]
    /\ conversation_id = [e \in ExchangeIds |-> NoConv]
    /\ messages = [e \in ExchangeIds |-> << >>]
    /\ assistant_message = [e \in ExchangeIds |-> EmptyStr]
    /\ tool_calls_buffer = [e \in ExchangeIds |-> << >>]
    /\ tool_messages = [e \in ExchangeIds |-> << >>]
    /\ chunk = [e \in ExchangeIds |-> << >>]
    /\ events = [e \in ExchangeIds |-> << >>]
    /\ sent = [e \in ExchangeIds |-> << >>]
    /\ stream = [e \in ExchangeIds |-> <<"none", "none">>]
    /\ delivered = [e \in ExchangeIds |-> [n |-> <<0, 0>>, followup_tools |-> FALSE]]
    /\ fault = [e \in ExchangeIds |-> ""]
    /\ dispatched = [e \in ExchangeIds |-> << >>]
    /\ rounds = [e \in ExchangeIds |-> 0]

InitTruncIdle ==
    /\ t_messages = << >>
    /\ t_max_tokens = 0
    /\ t_result = << >>

InitToolIdle == dispatch = [pc |-> "off"]

InitSplitIdle == splitter = [pc |-> "off"]

InitVectorIdle == vector_store = [pc |-> "off"]

\* no exchange, no request and an empty store
InitChatIdle ==
    /\ conversations = {}
    /\ db_messages = << >>
    /\ prompt = << >>
    /\ request = [e \in ExchangeIds |-> IdleRequest]
    /\ limits = [chunks |-> 0, fragments |-> 0, calls |-> 0, kinds |-> {},
                 stream_kinds |-> {}, split |-> FALSE]
    /\ InitLocals({})

\* one exchange against a provider that may deliver anything within the bounds
Init ==
    /\ \E sc \in Scenarios, mode \in {"stream", "sync"} :
         /\ conversations = {"c1"}
         /\ db_messages = sc.history
         /\ prompt = sc.prompt
         /\ request = [e \in ExchangeIds |->
                         IF e = 1
                         THEN [mode |-> mode, conversation_id |-> sc.conversation_id,
                               message |-> Str(UserTag(1), sc.len)]
                         ELSE IdleRequest]
    /\ limits = [chunks |-> MaxChunks, fragments |-> MaxFragments,
                 calls |-> MaxCalls, kinds |-> AllKinds,
                 stream_kinds |-> {KindKnowledge, KindUnknown}, split |-> TRUE]
    /\ InitLocals({1})
    /\ InitTruncIdle
    /\ InitToolIdle
    /\ InitSplitIdle
    /\ InitVectorIdle

Spec == Init /\ [][Next]_vars

\* one exchange of a new conversation whose first completion asks for at
\* most one tool call, against any follow-up within the bounds
InitRound ==
    /\ \E mode \in {"stream", "sync"} :
         request = [e \in ExchangeIds |->
                      IF e = 1
                      THEN [mode |-> mode, conversation_id |-> NoConv,
                            message |-> Str(UserTag(1), SmallLen)]
                      ELSE IdleRequest]
    /\ conversations = {"c1"}
    /\ db_messages = << >>
    /\ prompt = << >>
    /\ limits = [chunks |-> MaxChunks, fragments |-> 1, calls |-> 1,
                 kinds |-> {KindKnowledge, KindUnknown},
                 stream_kinds |-> {KindKnowledge, KindUnknown}, split |-> FALSE]
    /\ InitLocals({1})
    /\ InitTruncIdle
    /\ InitToolIdle
    /\ InitSplitIdle
    /\ InitVectorIdle

\* the event loop resumes every handler that can go on, and the provider
\* ends or fails every stream after finitely many items
SpecRound == InitRound /\ [][Next]_vars /\ \A e \in ExchangeIds : WF_vars(Step(e))


\* two exchanges issued concurrently against conversation "c1"; each handler
\* runs without interruption between two of its suspension points
InitConc ==
    /\ conversations = {"c1"}
    /\ db_messages \in {<< >>, SmallHistory}
    /\ prompt = << >>
    /\ \E modes \in [ExchangeIds -> {"stream", "sync"}] :
         request = [e \in ExchangeIds |->
                      [mode |-> modes[e], conversation_id |-> "c1",
                       message |-> Str(UserTag(e), SmallLen)]]
    /\ limits = [chunks |-> 1, fragments |-> 1, calls |-> 1, kinds |-> {KindUnknown},
                 stream_kinds |-> {KindUnknown}, split |-> FALSE]
    /\ InitLocals(ExchangeIds)
    /\ InitTruncIdle
    /\ InitToolIdle
    /\ InitSplitIdle
    /\ InitVectorIdle

SpecConc == InitConc /\ [][Next]_vars

(***************************************************************************)
(* Direct calls of truncate_messages(messages, max_tokens)                 *)
(***************************************************************************)
TailTags == <<"m1", "m2", "m3", "m4", "m5">>

\* message lists: an optional leading system turn, then up to MaxTail turns
\* of 0, 1 or 2 tokens each
TruncInputs ==
    LET heads == {<< >>} \cup {<<[role |-> "system", content |-> Str("sys", n)]>> :
                                  n \in {4, 12}}
        tails == UNION {{[i \in 1..len |->
                            [role |-> IF i % 2 = 1 THEN "user" ELSE "assistant",
                             content |-> Str(TailTags[i], ns[i])]] :
                          ns \in [1..len -> {3, 4, 8}]} : len \in 0..MaxTail}
    IN  {h \o t : h \in heads, t \in tails}

InitTrunc ==
    /\ conversations = {}
    /\ db_messages = << >>
    /\ prompt = << >>
    /\ request = [e \in ExchangeIds |-> IdleRequest]
    /\ limits = [chunks |-> 0, fragments |-> 0, calls |-> 0, kinds |-> {},
                 stream_kinds |-> {}, split |-> FALSE]
    /\ InitLocals({})
    /\ t_messages \in TruncInputs
    /\ t_max_tokens \in 0..MaxBudget
    /\ t_result = << >>
    /\ InitToolIdle
    /\ InitSplitIdle
    /\ InitVectorIdle

TruncateCall ==
    /\ t_result = << >>
    /\ t_result' = <<truncate_messages(t_messages, t_max_tokens)>>
    /\ UNCHANGED <<chatVars, t_messages, t_max_tokens, toolVars, splitVars, vectorVars>>

NextTrunc == TruncateCall

SpecTrunc == InitTrunc /\ [][NextTrunc]_vars

(***************************************************************************)
(* Direct calls of execute_tool(tool_name, arguments, tenant_id, db)       *)
(***************************************************************************)
ToolNames ==
    <<"search_knowledge", "search_products", "get_product_details",
      "search_products_by_category", "check_product_availability",
      "no_such_tool", NoneStr>>

\* argument values json.loads can hand over: dicts that fit a schema, dicts
\* that miss a required key, carry an unknown key or a value of the wrong
\* type, and a list
ToolArguments ==
    << << >>,
       [query |-> "q"],
       [query |-> "q", limit |-> "5"],
       [query |-> "q", limit |-> "ten"],
       [query |-> "q", bogus |-> "1"],
       [product_id |-> "p1"],
       [product_id |-> "5"],
       [category |-> "c"],
       [category |-> "c", limit |-> "ten"],
       PyList(<< >>) >>

InitTool ==
    /\ InitChatIdle
    /\ InitTruncIdle
    /\ InitSplitIdle
    /\ InitVectorIdle
    /\ \E i \in 1..Len(ToolNames), j \in 1..Len(ToolArguments) :
         dispatch = [pc |-> "call", tool_name |-> ToolNames[i],
                     arguments |-> ToolArguments[j]]

\* outcome "not_invoked": the call returned without the handler being entered
ExecuteToolCall ==
    /\ dispatch.pc = "call"
    /\ \E outcome \in (IF Invokes(dispatch.tool_name, dispatch.arguments)
                        THEN LookupOutcomes(dispatch.tool_name)
                        ELSE {"not_invoked"}) :
         dispatch' = [pc |-> "returned", tool_name |-> dispatch.tool_name,
                      arguments |-> dispatch.arguments, outcome |-> outcome,
                      result |-> execute_tool(dispatch.tool_name,
                                              dispatch.arguments, outcome)]
    /\ UNCHANGED <<chatVars, truncVars, splitVars, vectorVars>>

NextTool == ExecuteToolCall

SpecTool == InitTool /\ [][NextTool]_vars


(***************************************************************************)
(* DocumentSplitter (app/services/document_splitter.py)                    *)
(* A text is a sequence of characters; positions are Python's (from 0).    *)
(***************************************************************************)
SP == " "
NL == "\n"
DOT == "."
LETTER == "a"

IsSpace(c) == c \in {SP, NL}                 \* str.isspace and \s

At(text, i) == text[i + 1]                   \* text[i]

Slice(text, a, b) == SubSeq(text, a + 1, b)  \* text[a:b]

RECURSIVE LStrip(_)
LStrip(text) ==
    IF text # << >> /\ IsSpace(Head(text)) THEN LStrip(Tail(text)) ELSE text

RECURSIVE RStrip(_)
RStrip(text) ==
    IF text # << >> /\ IsSpace(text[Len(text)])
    THEN RStrip(SubSeq(text, 1, Len(text) - 1)) ELSE text

strip(text) == RStrip(LStrip(text))

\* the position after the whitespace run that starts at position i
RECURSIVE RunEnd(_, _)
RunEnd(text, i) ==
    IF i < Len(text) /\ IsSpace(At(text, i)) THEN RunEnd(text, i + 1) ELSE i

\* positions of the newlines in text[a:b]
NewlinesIn(text, a, b) == {i \in a..(b - 1) : At(text, i) = NL}

MaxOf(S) == CHOOSE x \in S : \A y \in S : y <= x

\* re.sub(r'\n\s*\n\s*\n', '\n\n', content) from position i on: a match
\* starts at a newline and runs, greedily, to the last newline of the
\* whitespace run, which must hold three newlines at least
RECURSIVE SquashNewlines(_, _)
SquashNewlines(text, i) ==
    IF i >= Len(text) THEN << >>
    ELSE LET nls == NewlinesIn(text, i, RunEnd(text, i))
         IN  IF At(text, i) = NL /\ Cardinality(nls) >= 3
             THEN <<NL, NL>> \o SquashNewlines(text, MaxOf(nls) + 1)
             ELSE <<At(text, i)>> \o SquashNewlines(text, i + 1)

\* a substitution that halves a run of blanks instead of reducing it to one
RECURSIVE SquashSpaces_Pairwise(_)
SquashSpaces_Pairwise(text) ==
    IF Len(text) < 2 THEN text
    ELSE IF text[1] = SP /\ text[2] = SP
         THEN <<SP>> \o SquashSpaces_Pairwise(Tail(Tail(text)))
         ELSE <<text[1]>> \o SquashSpaces_Pairwise(Tail(text))

\* re.sub(r' +', ' ', content)
RECURSIVE SquashSpaces(_)
SquashSpaces(text) ==
    IF Len(text) < 2 THEN text
    ELSE IF text[1] = SP /\ text[2] = SP THEN SquashSpaces(Tail(text))
         ELSE <<text[1]>> \o SquashSpaces(Tail(text))

_clean_content(content) == strip(SquashSpaces(SquashNewlines(content, 0)))

\* match.start() of re.finditer(r'\n\s*\n', text) from position i on
RECURSIVE Paragraphs(_, _)
Paragraphs(text, i) ==
    IF i >= Len(text) THEN << >>
    ELSE LET nls == NewlinesIn(text, i, RunEnd(text, i))
         IN  IF At(text, i) = NL /\ Cardinality(nls) >= 2
             THEN <<i>> \o Paragraphs(text, MaxOf(nls) + 1)
             ELSE Paragraphs(text, i + 1)

\* the position after the run of sentence marks that starts at position i
RECURSIVE MarksEnd(_, _)
MarksEnd(text, i) ==
    IF i < Len(text) /\ At(text, i) = DOT THEN MarksEnd(text, i + 1) ELSE i

\* match.end() of re.finditer(r'[.!?]+\s+', text) from position i on
RECURSIVE Sentences(_, _)
Sentences(text, i) ==
    IF i >= Len(text) THEN << >>
    ELSE LET j == MarksEnd(text, i)
             k == RunEnd(text, j)
         IN  IF At(text, i) = DOT /\ k > j
             THEN <<k>> \o Sentences(text, k)
             ELSE Sentences(text, i + 1)

\* of the structure only the paragraph and sentence boundaries reach the
\* split; headers, lists and code blocks are collected and not read again
detect_document_structure(text) ==
    [paragraphs |-> Paragraphs(text, 0), sentences |-> Sentences(text, 0)]

SearchWindowCap == 200

Min2(a, b) == IF a <= b THEN a ELSE b

Max2(a, b) == IF a >= b THEN a ELSE b

Within(positions, lo, hi) ==
    {positions[n] : n \in {m \in 1..Len(positions) : lo <= positions[m] /\ positions[m] <= hi}}

\* _find_best_split_point whose last resort is the end of the text
_find_best_split_point_ToEnd(text, start, target_end, structure) ==
    LET search_window == Min2(SearchWindowCap, (target_end - start) \div 4)
        paragraphs == Within(structure.paragraphs, target_end - search_window, target_end)
        sentences == Within(structure.sentences, target_end - search_window, target_end)
        words == {i \in (Max2(start, target_end - search_window) + 1)..target_end :
                     i < Len(text) /\ IsSpace(At(text, i))}
    IN  IF paragraphs # {} THEN MaxOf(paragraphs)
        ELSE IF sentences # {} THEN MaxOf(sentences)
        ELSE IF words # {} THEN MaxOf(words)
        ELSE Len(text)

\* priority order: paragraph > sentence > word > character
_find_best_split_point(text, start, target_end, structure) ==
    LET search_window == Min2(SearchWindowCap, (target_end - start) \div 4)
        paragraphs == Within(structure.paragraphs, target_end - search_window, target_end)
        sentences == Within(structure.sentences, target_end - search_window, target_end)
        words == {i \in (Max2(start, target_end - search_window) + 1)..target_end :
                     i < Len(text) /\ IsSpace(At(text, i))}
    IN  IF paragraphs # {} THEN MaxOf(paragraphs)
        ELSE IF sentences # {} THEN MaxOf(sentences)
        ELSE IF words # {} THEN MaxOf(words)
        ELSE target_end

\* the cursor of the next iteration without its floor
NextCursor_NoFloor(best_split, overlap, current_pos) == best_split - overlap

\* "Move to next position with overlap"
NextCursor(best_split, overlap, current_pos) ==
    Max2(best_split - overlap, current_pos + 1)

Title == <<"T">>

PartNumbers == <<"1", "2", "3", "4", "5", "6", "7", "8", "9", "10", "11", "12",
                 "13", "14", "15", "16">>

\* no line of a text over the characters above matches a header pattern:
\* the title of a chunk of several is the part numbering
_generate_chunk_title(original_title, chunk_index, total_chunks) ==
    IF total_chunks = 1 THEN original_title
    ELSE original_title \o <<" - Part ", PartNumbers[chunk_index + 1]>>

\* the single chunk of a document kept whole, not flagged as complete
SingleChunk_Unflagged(title, content) ==
    [title |-> title, content |-> content, chunk_index |-> 0, total_chunks |-> 1,
     metadata |-> [is_complete_document |-> FALSE, original_length |-> Len(content)]]

\* "If document is small enough, return as single chunk"
SingleChunk(title, content) ==
    [title |-> title, content |-> content, chunk_index |-> 0, total_chunks |-> 1,
     metadata |-> [is_complete_document |-> TRUE, original_length |-> Len(content)]]

\* "Create chunks" without the skip of a chunk that is empty
RECURSIVE CreateChunksFrom_KeepsEmpty(_, _, _, _, _)
CreateChunksFrom_KeepsEmpty(i, content, title, split_points, chunk_overlap) ==
    IF i >= Len(split_points) - 1 THEN << >>
    ELSE LET start_pos == At(split_points, i)
             end_pos == At(split_points, i + 1)
             chunk_content == strip(Slice(content, start_pos, end_pos))
         IN  <<[title |-> _generate_chunk_title(title, i, Len(split_points) - 1),
                content |-> chunk_content,
                chunk_index |-> i,
                total_chunks |-> Len(split_points) - 1,
                metadata |-> [chunk_start |-> start_pos,
                              chunk_end |-> end_pos,
                              original_length |-> Len(content),
                              chunk_length |-> Len(chunk_content),
                              overlap_with_previous |->
                                  IF i > 0 THEN chunk_overlap ELSE 0]]>>
             \o CreateChunksFrom_KeepsEmpty(i + 1, content, title, split_points,
                                           chunk_overlap)

\* "Create chunks": the loop over range(len(split_points) - 1) from i on
RECURSIVE CreateChunksFrom(_, _, _, _, _)
CreateChunksFrom(i, content, title, split_points, chunk_overlap) ==
    IF i >= Len(split_points) - 1 THEN << >>
    ELSE LET start_pos == At(split_points, i)
             end_pos == At(split_points, i + 1)
             chunk_content == strip(Slice(content, start_pos, end_pos))
             rest == CreateChunksFrom(i + 1, content, title, split_points, chunk_overlap)
         IN  IF chunk_content = << >> THEN rest
             ELSE <<[title |-> _generate_chunk_title(title, i, Len(split_points) - 1),
                     content |-> chunk_content,
                     chunk_index |-> i,
                     total_chunks |-> Len(split_points) - 1,
                     metadata |-> [chunk_start |-> start_pos,
                                   chunk_end |-> end_pos,
                                   original_length |-> Len(content),
                                   chunk_length |-> Len(chunk_content),
                                   overlap_with_previous |->
                                       IF i > 0 THEN chunk_overlap ELSE 0]]>>
                  \o rest

\* split_document up to the first iteration of the split-point search
SplitDocumentCall ==
    /\ splitter.pc = "call"
    /\ LET content == _clean_content(splitter.content)
       IN  splitter' =
             IF strip(splitter.content) = << >>
             THEN [splitter EXCEPT !.pc = "returned", !.chunks = << >>]
             ELSE IF Len(content) <= splitter.max_chunk_size
             THEN [splitter EXCEPT !.pc = "returned", !.text = content,
                      !.chunks = <<SingleChunk(splitter.title, content)>>]
             ELSE [splitter EXCEPT !.pc = "search", !.text = content,
                      !.structure = IF splitter.preserve_structure
                                    THEN detect_document_structure(content)
                                    ELSE << >>,
                      !.split_points = <<0>>, !.current_pos = 0]
    /\ UNCHANGED <<chatVars, truncVars, toolVars, vectorVars>>

\* one iteration of the while loop of find_optimal_split_points; without a
\* structure the lookup structure['paragraphs'] is a KeyError
SearchStep ==
    /\ splitter.pc = "search"
    /\ LET text_length == Len(splitter.text)
           current_pos == splitter.current_pos
           target_end == Min2(current_pos + splitter.max_chunk_size, text_length)
           best_split == _find_best_split_point(splitter.text, current_pos,
                                                target_end, splitter.structure)
       IN  splitter' =
             IF ~ (current_pos < text_length)
             THEN [splitter EXCEPT !.pc = "chunks"]
             ELSE IF target_end >= text_length
             THEN [splitter EXCEPT !.pc = "chunks",
                      !.split_points = Append(@, text_length)]
             ELSE IF "paragraphs" \notin DOMAIN splitter.structure
             THEN [splitter EXCEPT !.pc = "raised"]
             ELSE [splitter EXCEPT
                      !.split_points = Append(@, best_split),
                      !.current_pos = NextCursor(best_split, splitter.chunk_overlap,
                                                 current_pos)]
    /\ UNCHANGED <<chatVars, truncVars, toolVars, vectorVars>>

\* the search has returned: the chunks are created and returned
CreateChunks ==
    /\ splitter.pc = "chunks"
    /\ splitter' = [splitter EXCEPT !.pc = "returned",
                       !.chunks = CreateChunksFrom(0, splitter.text, splitter.title,
                                      splitter.split_points, splitter.chunk_overlap)]
    /\ UNCHANGED <<chatVars, truncVars, toolVars, vectorVars>>

NextSplit == SplitDocumentCall \/ SearchStep \/ CreateChunks

Alphabet == {LETTER, SP, NL, DOT}

MaxText == 5          \* longest text of the exhaustive family
MaxSize == 4          \* largest max_chunk_size of the exhaustive family
MaxOverlap == 5       \* largest chunk_overlap
LongSize == 8         \* max_chunk_size of the family of longer texts

Texts == UNION {[1..n -> Alphabet] : n \in 0..MaxText}

\* three words joined by a blank, a paragraph break, a sentence end or nothing
LongTexts ==
    LET words == {<<LETTER, LETTER>>, <<LETTER, LETTER, LETTER, LETTER>>}
        joints == {<<SP>>, <<NL, NL>>, <<DOT, SP>>, << >>}
    IN  {w1 \o j1 \o w2 \o j2 \o w3 :
            w1 \in words, w2 \in words, w3 \in words, j1 \in joints, j2 \in joints}

SplitCall(content, max_chunk_size, chunk_overlap, preserve_structure) ==
    [pc |-> "call", content |-> content, title |-> Title,
     max_chunk_size |-> max_chunk_size, chunk_overlap |-> chunk_overlap,
     preserve_structure |-> preserve_structure,
     text |-> << >>, structure |-> << >>, split_points |-> << >>,
     current_pos |-> 0, chunks |-> << >>]

InitSplit ==
    /\ InitChatIdle
    /\ InitTruncIdle
    /\ InitToolIdle
    /\ InitVectorIdle
    /\ \/ \E content \in Texts, size \in 1..MaxSize, overlap \in 0..MaxOverlap,
             preserve \in BOOLEAN :
             splitter = SplitCall(content, size, overlap, preserve)
       \/ \E content \in LongTexts, overlap \in 0..MaxOverlap \cup {LongSize, LongSize + 1} :
             splitter = SplitCall(content, LongSize, overlap, TRUE)

SpecSplit == InitSplit /\ [][NextSplit]_vars

\* the longer texts with any overlap, with and without structure, and with
\* a chunk size as small as the overlap
InitSearch ==
    /\ InitChatIdle
    /\ InitTruncIdle
    /\ InitToolIdle
    /\ InitVectorIdle
    /\ \/ \E content \in LongTexts, overlap \in 0..MaxOverlap \cup {LongSize, LongSize + 1},
             preserve \in BOOLEAN :
             splitter = SplitCall(content, LongSize, overlap, preserve)
       \/ \E content \in LongTexts, size \in 1..MaxSize :
             splitter = SplitCall(content, size, size, TRUE)

\* the loop of the search and the creation of the chunks are synchronous
\* code: once entered they run on
SpecSearch ==
    InitSearch /\ [][NextSplit]_vars /\ WF_vars(SearchStep) /\ WF_vars(CreateChunks)


(***************************************************************************)
(* VectorStore (app/services/vector_store.py)                              *)
(* A name is a sequence of characters and of words that hold no "_".       *)
(* Distances and scores are counted in hundredths.                         *)
(***************************************************************************)
UuidLen == 2          \* length of a tenant id (a uuid4 in the code)
MaxOps == 2           \* calls made on the vector store

\* Tenant.id is str(uuid.uuid4()): the ids have one length and hold no "_";
\* the two tenants differ in the last character only
TenantIds == {id \in [1..UuidLen -> {"a", "b"}] : \A i \in 1..(UuidLen - 1) : id[i] = "a"}

\* the collection types the callers pass
CollectionTypes == {<<"knowledge">>, <<"products">>}

VectorIds == {"d1", "d2", "d3"}

\* the distances of a stored embedding from the query embedding
Distances == {10, 20, 40}

Hundred == 100

DefaultLimit == 10

DefaultMinScore == 70

MinScores == {DefaultMinScore, 85}

\* a name that does not tell the tenants apart
get_collection_name_Shared(tenant_id, collection_type) ==
    <<"tenant", "_">> \o collection_type

\* f"tenant_{tenant_id}_{collection_type}"
get_collection_name(tenant_id, collection_type) ==
    <<"tenant", "_">> \o tenant_id \o <<"_">> \o collection_type

\* str.startswith
startswith(name, prefix) ==
    Len(prefix) <= Len(name) /\ SubSeq(name, 1, Len(prefix)) = prefix

\* get_collection: the cached collection, else the one the backend has,
\* else a new one (ValueError); the name is cached
get_collection(vs, tenant_id, collection_type) ==
    LET collection_name == get_collection_name(tenant_id, collection_type)
    IN  IF collection_name \in vs._collections THEN vs
        ELSE [vs EXCEPT
                 !.client = IF collection_name \in DOMAIN @ THEN @
                            ELSE @ @@ (collection_name :> {}),
                 !._collections = @ \cup {collection_name}]

\* the records of the collection of a tenant and a type
Records(vs, tenant_id, collection_type) ==
    vs.client[get_collection_name(tenant_id, collection_type)]

\* the record of a call: what was asked, by whom, and what came back
Call(op, tenant_id, ok, backend, min_score, results, deleted) ==
    [op |-> op, tenant_id |-> tenant_id, ok |-> ok, backend |-> backend,
     min_score |-> min_score, results |-> results, deleted |-> deleted]

Returned(vs, call) == [vs EXCEPT !.last = call, !.ops = @ + 1]

\* add_documents with one document; the backend does not store an id twice
add_documents(vs, tenant_id, collection_type, id, distance) ==
    LET vs1 == get_collection(vs, tenant_id, collection_type)
        name == get_collection_name(tenant_id, collection_type)
        known == \E rec \in vs1.client[name] : rec.id = id
        added == [vs1 EXCEPT !.client[name] =
                     @ \cup {[id |-> id, owner |-> tenant_id, distance |-> distance]}]
    IN  IF known
        THEN {Returned(vs1, Call("add", tenant_id, ok, << >>, 0, << >>, {})) : ok \in BOOLEAN}
        ELSE {Returned(added, Call("add", tenant_id, TRUE, << >>, 0, << >>, {}))}

\* update_documents with one document: a record with that id gets the new
\* embedding, an id that is not there is passed over
update_documents(vs, tenant_id, collection_type, id, distance) ==
    LET vs1 == get_collection(vs, tenant_id, collection_type)
        name == get_collection_name(tenant_id, collection_type)
        updated == [vs1 EXCEPT !.client[name] =
                       {IF rec.id = id THEN [rec EXCEPT !.distance = distance]
                        ELSE rec : rec \in @}]
    IN  {Returned(updated, Call("update", tenant_id, TRUE, << >>, 0, << >>, {}))}

\* delete_documents with one id
delete_documents(vs, tenant_id, collection_type, id) ==
    LET vs1 == get_collection(vs, tenant_id, collection_type)
        name == get_collection_name(tenant_id, collection_type)
        deleted == [vs1 EXCEPT !.client[name] = {rec \in @ : rec.id # id}]
    IN  {Returned(deleted, Call("delete", tenant_id, TRUE, << >>, 0, << >>, {}))}

\* collection.query: the n_results nearest records, the nearest first;
\* records at the same distance come in any order
Nearest(records, n_results) ==
    LET k == Min2(n_results, Cardinality(records))
    IN  {res \in [1..k -> records] :
            /\ \A i \in 1..k : \A j \in 1..k : i < j =>
                  /\ res[i] # res[j]
                  /\ res[i].distance <= res[j].distance
            /\ \A rec \in records :
                  (\A i \in 1..k : res[i] # rec) =>
                      \A i \in 1..k : res[i].distance <= rec.distance}

\* similarity_score = 1 - results["distances"][i] without the conversion
SimilarityScore_Raw(distance) == distance

\* similarity_score = 1 - results["distances"][i]
SimilarityScore(distance) == Hundred - distance

\* the loop of search_knowledge over the results of search_documents
RECURSIVE search_results(_, _)
search_results(results, min_score) ==
    IF results = << >> THEN << >>
    ELSE LET similarity_score == SimilarityScore(results[1].distance)
             rest == search_results(Tail(results), min_score)
         IN  IF similarity_score >= min_score
             THEN <<[vector_id |-> results[1].id, score |-> similarity_score,
                     owner |-> results[1].owner]>> \o rest
             ELSE rest

\* VectorStore.search_knowledge: search_documents on the "knowledge"
\* collection of the tenant, then the conversion and the filter
VectorStore_search_knowledge(vs, tenant_id, limit, min_score) ==
    LET vs1 == get_collection(vs, tenant_id, <<"knowledge">>)
    IN  {Returned(vs1, Call("search", tenant_id, TRUE, results, min_score,
                            search_results(results, min_score), {})) :
            results \in Nearest(Records(vs1, tenant_id, <<"knowledge">>), limit)}

\* delete_tenant_collections: every collection of the backend whose name
\* starts with the prefix of the tenant is deleted and leaves the cache
delete_tenant_collections(vs, tenant_id) ==
    LET tenant_prefix == <<"tenant", "_">> \o tenant_id \o <<"_">>
        doomed == {name \in DOMAIN vs.client : startswith(name, tenant_prefix)}
        kept == DOMAIN vs.client \ doomed
    IN  {Returned([vs EXCEPT !.client = [name \in kept |-> vs.client[name]],
                             !._collections = @ \ doomed],
                  Call("delete_tenant", tenant_id, TRUE, << >>, 0, << >>, doomed))}

\* the backend fails in a call: the exception is caught, the call answers
\* False (a search answers the empty list) and nothing is written
BackendError(vs, op, tenant_id) ==
    {Returned(vs, Call(op, tenant_id, FALSE, << >>, 0, << >>, {}))}

Calling == vector_store.pc = "on" /\ vector_store.ops < MaxOps

AddDocuments ==
    /\ Calling
    /\ \E tenant_id \in TenantIds, collection_type \in CollectionTypes,
          id \in VectorIds, distance \in Distances :
          vector_store' \in add_documents(vector_store, tenant_id, collection_type,
                                          id, distance)
    /\ UNCHANGED <<chatVars, truncVars, toolVars, splitVars>>

UpdateDocuments ==
    /\ Calling
    /\ \E tenant_id \in TenantIds, collection_type \in CollectionTypes,
          id \in VectorIds, distance \in Distances :
          vector_store' \in update_documents(vector_store, tenant_id, collection_type,
                                             id, distance)
    /\ UNCHANGED <<chatVars, truncVars, toolVars, splitVars>>

DeleteDocuments ==
    /\ Calling
    /\ \E tenant_id \in TenantIds, collection_type \in CollectionTypes,
          id \in VectorIds :
          vector_store' \in delete_documents(vector_store, tenant_id, collection_type, id)
    /\ UNCHANGED <<chatVars, truncVars, toolVars, splitVars>>

SearchKnowledge ==
    /\ Calling
    /\ \E tenant_id \in TenantIds, limit \in {1, DefaultLimit}, min_score \in MinScores :
          vector_store' \in VectorStore_search_knowledge(vector_store, tenant_id, limit,
                                                         min_score)
    /\ UNCHANGED <<chatVars, truncVars, toolVars, splitVars>>

DeleteTenantCollections ==
    /\ Calling
    /\ \E tenant_id \in TenantIds :
          vector_store' \in delete_tenant_collections(vector_store, tenant_id)
    /\ UNCHANGED <<chatVars, truncVars, toolVars, splitVars>>

VectorCallFails ==
    /\ Calling
    /\ \E tenant_id \in TenantIds,
          op \in {"add", "update", "delete", "search", "delete_tenant"} :
          vector_store' \in BackendError(vector_store, op, tenant_id)
    /\ UNCHANGED <<chatVars, truncVars, toolVars, splitVars>>

NextVector ==
    \/ AddDocuments
    \/ UpdateDocuments
    \/ DeleteDocuments
    \/ SearchKnowledge
    \/ DeleteTenantCollections
    \/ VectorCallFails

\* what the persist directory holds when the process starts: nothing, or
\* the collections of every tenant, each with two records
Persisted(pairs) ==
    [name \in {get_collection_name(p[1], p[2]) : p \in pairs} |->
        LET owner == CHOOSE t \in TenantIds :
                        \E c \in CollectionTypes : name = get_collection_name(t, c)
        IN  {[id |-> "d1", owner |-> owner, distance |-> 10],
             [id |-> "d2", owner |-> owner, distance |-> 20]}]

\* a new VectorStore: the cache is empty whatever the backend holds
InitVector ==
    /\ InitChatIdle
    /\ InitTruncIdle
    /\ InitToolIdle
    /\ InitSplitIdle
    /\ \E pairs \in {{}, TenantIds \X CollectionTypes} :
          vector_store = [pc |-> "on", client |-> Persisted(pairs), _collections |-> {},
                          last |-> Call("none", << >>, TRUE, << >>, 0, << >>, {}),
                          ops |-> 0]

SpecVector == InitVector /\ [][NextVector]_vars

(***************************************************************************)
(* execute_tool over the stores of several tenants: the handlers of        *)
(* app/services/tools.py with their queries on the structured store and    *)
(* the vector store                                                        *)
(***************************************************************************)
ProductIdOf(t) == IF t[UuidLen] = "a" THEN "pa" ELSE "pb"

KnowledgeIdOf(t) == IF t[UuidLen] = "a" THEN "ka" ELSE "kb"

\* the structured store: a product and a knowledge item per tenant, each
\* indexed under vector id "d1" in a collection of its tenant
Rows(active) ==
    [products |-> {[id |-> ProductIdOf(t), tenant_id |-> t, vector_id |-> "d1",
                    category |-> "c1", is_active |-> active[t]] : t \in TenantIds},
     knowledge |-> {[id |-> KnowledgeIdOf(t), tenant_id |-> t, vector_id |-> "d1",
                     is_active |-> active[t]] : t \in TenantIds}]

\* vector_store.search_documents: the ids of the nearest records
search_documents(vs, tenant_id, collection_type, n_results) ==
    LET vs1 == get_collection(vs, tenant_id, collection_type)
    IN  {[vs |-> vs1, ids |-> [i \in 1..Len(res) |-> res[i].id]] :
            res \in Nearest(Records(vs1, tenant_id, collection_type), n_results)}

\* filter(vector_id == doc_id, tenant_id == tenant_id, is_active == True)
ByVectorId(rows, doc_id, tenant_id) ==
    {row \in rows : row.vector_id = doc_id /\ row.tenant_id = tenant_id /\ row.is_active}

\* filter(id == product_id, tenant_id == tenant_id, is_active == True)
ById(rows, id, tenant_id) ==
    {row \in rows : row.id = id /\ row.tenant_id = tenant_id /\ row.is_active}

\* the loop over results["ids"]: the first row found for each id, if any
RECURSIVE RowsFound(_, _, _)
RowsFound(rows, ids, tenant_id) ==
    IF ids = << >> THEN << >>
    ELSE LET found == ByVectorId(rows, ids[1], tenant_id)
             rest == RowsFound(rows, Tail(ids), tenant_id)
         IN  IF found = {} THEN rest
             ELSE <<CHOOSE row \in found : TRUE>> \o rest

\* _format_product
_format_product(product, high_relevance) ==
    [id |-> product.id, category |-> product.category, high_relevance |-> high_relevance]

\* the rows of a set in some order (a query without order_by)
RECURSIVE InOrder(_)
InOrder(rows) ==
    IF rows = {} THEN << >>
    ELSE LET row == CHOOSE r \in rows : TRUE
         IN  <<row>> \o InOrder(rows \ {row})

\* ToolsService.search_knowledge on the stores
SearchKnowledgeOn(db, vs, arguments) ==
    {[vs |-> r.vs,
      data |-> PyList([i \in 1..Len(RowsFound(db.knowledge, r.ids, arguments.tenant_id)) |->
                         [id |-> RowsFound(db.knowledge, r.ids, arguments.tenant_id)[i].id]])] :
        r \in search_documents(vs, arguments.tenant_id, <<"knowledge">>, 5)}

\* ToolsService.search_products on the stores: the products found through
\* the vector search, read again by id alone, then those of the query on
\* the structured store
SearchProductsOn(db, vs, arguments) ==
    LET tenant_id == arguments.tenant_id
        category == IF "category" \in DOMAIN arguments THEN {arguments.category} ELSE {}
        db_products == InOrder({p \in db.products :
                                   /\ p.tenant_id = tenant_id
                                   /\ p.is_active
                                   /\ p.category = arguments.query
                                   /\ \A c \in category : p.category = c})
    IN  {LET vector_product_ids ==
                 [i \in 1..Len(RowsFound(db.products, r.ids, tenant_id)) |->
                     RowsFound(db.products, r.ids, tenant_id)[i].id]
             first == SelectSeq(
                 [i \in 1..Len(vector_product_ids) |->
                     CHOOSE p \in db.products : p.id = vector_product_ids[i]],
                 LAMBDA p : \A c \in category : p.category = c)
             seen_ids == {first[i].id : i \in 1..Len(first)}
             second == SelectSeq(db_products, LAMBDA p : p.id \notin seen_ids)
         IN  [vs |-> r.vs,
              data |-> PyList([i \in 1..Len(first) |-> _format_product(first[i], TRUE)]
                              \o [i \in 1..Len(second) |->
                                     _format_product(second[i], FALSE)])] :
            r \in search_documents(vs, tenant_id, <<"products">>, 20)}

\* ToolsService.get_product_details on the stores
GetProductDetailsOn(db, vs, arguments) ==
    LET found == ById(db.products, arguments.product_id, arguments.tenant_id)
    IN  {[vs |-> vs,
          data |-> IF found = {} THEN PyNone
                   ELSE [id |-> (CHOOSE p \in found : TRUE).id]]}

\* ToolsService.search_products_by_category on the stores
SearchProductsByCategoryOn(db, vs, arguments) ==
    LET products == InOrder({p \in db.products :
                                /\ p.tenant_id = arguments.tenant_id
                                /\ p.category = arguments.category
                                /\ p.is_active})
    IN  {[vs |-> vs,
          data |-> PyList([i \in 1..Len(products) |->
                              _format_product(products[i], FALSE)])]}

\* ToolsService.check_product_availability on the stores
CheckProductAvailabilityOn(db, vs, arguments) ==
    LET found == ById(db.products, arguments.product_id, arguments.tenant_id)
    IN  {[vs |-> vs,
          data |-> IF found = {}
                   THEN [available |-> FALSE, message |-> "Product not found"]
                   ELSE [available |-> TRUE,
                         product_name |-> (CHOOSE p \in found : TRUE).id]]}

HandlerOn(name, db, vs, arguments) ==
    CASE name = "search_knowledge" -> SearchKnowledgeOn(db, vs, arguments)
      [] name = "search_products" -> SearchProductsOn(db, vs, arguments)
      [] name = "get_product_details" -> GetProductDetailsOn(db, vs, arguments)
      [] name = "search_products_by_category" ->
            SearchProductsByCategoryOn(db, vs, arguments)
      [] name = "check_product_availability" ->
            CheckProductAvailabilityOn(db, vs, arguments)

\* arguments["tenant_id"] = tenant_id; arguments["db"] = db
WithCaller(arguments, tenant_id) ==
    [k \in DOMAIN arguments \cup {"tenant_id", "db"} |->
        IF k = "tenant_id" THEN tenant_id
        ELSE IF k = "db" THEN "Session"
        ELSE arguments[k]]

\* execute_tool with the stores: the arguments the handler was called with,
\* the answer, and the vector store after the call
ExecuteToolOn(tool_name, arguments, tenant_id, db, vs) ==
    IF tool_name \notin available_tools
    THEN {[called |-> << >>, result |-> [error |-> "Tool not found"], vs |-> vs]}
    ELSE IF ~ IsDict(arguments) \/ ~ Binds(tool_name, WithCaller(arguments, tenant_id))
         THEN {[called |-> << >>, result |-> [error |-> "TypeError"], vs |-> vs]}
         ELSE {[called |-> <<WithCaller(arguments, tenant_id)>>,
                result |-> [success |-> TRUE, data |-> r.data],
                vs |-> r.vs] :
                  r \in HandlerOn(tool_name, db, vs, WithCaller(arguments, tenant_id))}

\* what the model may supply for a tool: arguments that fit it, also with a
\* tenant_id or a db key of its own
ScopedArguments(tool_name) ==
    LET base == CASE tool_name \in {"search_knowledge", "search_products"} ->
                        {[query |-> "c1"]}
                  [] tool_name = "search_products_by_category" -> {[category |-> "c1"]}
                  [] tool_name \in {"get_product_details", "check_product_availability"} ->
                        {[product_id |-> ProductIdOf(t)] : t \in TenantIds}
                  [] OTHER -> {[query |-> "c1"]}
        extra == {<< >>, [db |-> "other"]} \cup {[tenant_id |-> t] : t \in TenantIds}
    IN  {b @@ x : b \in base, x \in extra}

\* a dispatch for a calling tenant, on stores that hold data of every tenant
InitScoped ==
    /\ InitChatIdle
    /\ InitTruncIdle
    /\ InitSplitIdle
    /\ \E pairs \in {{}, TenantIds \X CollectionTypes} :
          vector_store = [pc |-> "on", client |-> Persisted(pairs), _collections |-> {},
                          last |-> Call("none", << >>, TRUE, << >>, 0, << >>, {}),
                          ops |-> 0]
    /\ \E tool_name \in available_tools \cup {"no_such_tool"}, tenant_id \in TenantIds,
          active \in [TenantIds -> BOOLEAN] :
          \E arguments \in ScopedArguments(tool_name) :
             dispatch = [pc |-> "scoped", tool_name |-> tool_name,
                         arguments |-> arguments, tenant_id |-> tenant_id,
                         db |-> Rows(active)]

\* tools_service.execute_tool(tool_name, arguments, tenant_id, db)
ExecuteScoped ==
    /\ dispatch.pc = "scoped"
    /\ \E r \in ExecuteToolOn(dispatch.tool_name, dispatch.arguments,
                              dispatch.tenant_id, dispatch.db, vector_store) :
          /\ dispatch' = [pc |-> "answered", tool_name |-> dispatch.tool_name,
                          arguments |-> dispatch.arguments,
                          tenant_id |-> dispatch.tenant_id, db |-> dispatch.db,
                          called |-> r.called, result |-> r.result]
          /\ vector_store' = r.vs
    /\ UNCHANGED <<chatVars, truncVars, splitVars>>

NextScoped == ExecuteScoped

SpecScoped == InitScoped /\ [][NextScoped]_vars

(***************************************************************************)
(* Properties                                                              *)
(***************************************************************************)
RowsOf(e) == SelectSeq(db_messages, LAMBDA m : m.xid = e)

Terminal == {"DONE", "ERROR", "CANCELLED"}

RECURSIVE Concat(_)
Concat(ss) == IF ss = << >> THEN << >> ELSE ss[1] \o Concat(Tail(ss))

ContentEvents(e) == SelectSeq(events[e], LAMBDA ev : ev.type = "content")

\* the content streamed to the client, in order
StreamedContent(e) ==
    Concat([i \in 1..Len(ContentEvents(e)) |-> ContentEvents(e)[i].data])

\* C1: an exchange that reaches DONE (streaming or not) has persisted exactly
\* two turns, its user turn first and then one assistant turn, both in its
\* conversation; without tool calls these two rows are all it added
C1_TwoTurnsPerExchange ==
    \A e \in ExchangeIds :
        pc[e] = "DONE" =>
            LET rows == RowsOf(e)
            IN  /\ Len(rows) = 2
                /\ rows[1].role = "user"
                /\ rows[1].content = request[e].message
                /\ rows[2].role = "assistant"
                /\ \A i \in 1..2 : rows[i].conversation_id = conversation_id[e]

C1_Witness ==
    \E e \in ExchangeIds :
        /\ pc[e] = "DONE"
        /\ request[e].mode = "stream"
        /\ rounds[e] = 0
        /\ Len(RowsOf(e)) = 2
        /\ RowsOf(e)[2].content # EmptyStr

\* C2: after a first completion that ended with tool calls, the assistant
\* content persisted at DONE holds no fragment of the first completion and,
\* when streamed, is exactly the content streamed by the follow-up
C2_PostToolContentOnly ==
    \A e \in ExchangeIds :
        (pc[e] = "DONE" /\ rounds[e] = 1) =>
            LET content == RowsOf(e)[2].content
            IN  /\ \A i \in 1..Len(content) : content[i].t \notin TagsOf(1)
                /\ request[e].mode = "stream" =>
                     content = SelectSeq(StreamedContent(e), LAMBDA p : p.t \in TagsOf(2))

\* does call d of process_tool_calls fail: unknown tool name, unparsable
\* arguments, arguments the handler does not accept, or a failed lookup
CallFailed(d) ==
    LET parsed == json_loads(d.call.function.arguments)
    IN  IF ~ parsed.ok THEN TRUE
        ELSE IF d.call.function.name \notin available_tools THEN TRUE
        ELSE IF ~ Binds(d.call.function.name, parsed.value) THEN TRUE
        ELSE d.outcome \in LookupFailures

AfterToolRound == {"s2", "y_content2", "a2", "DONE"}

\* C3: every call of the round gets one tool-result turn, in arrival order
\* and under its call id, and the turn of a failed call is an error payload
C3_FailedCallYieldsErrorTurn ==
    \A e \in ExchangeIds :
        /\ \A i \in 1..Len(tool_messages[e]) :
              /\ tool_messages[e][i].role = "tool"
              /\ tool_messages[e][i].tool_call_id = tool_calls_buffer[e][i].id
              /\ CallFailed(dispatched[e][i]) => IsErrorPayload(tool_messages[e][i].content)
        /\ (pc[e] \in AfterToolRound /\ rounds[e] = 1) =>
              Len(tool_messages[e]) = Len(tool_calls_buffer[e])

\* the calls the provider asked for: a fragment belongs to the call of its index
CallsRequested(e) == {tool_calls_buffer[e][i].index : i \in 1..Len(tool_calls_buffer[e])}

\* C4: the fragments of one call are accumulated into one call: after the
\* round there is exactly one dispatch and one tool-result turn per call
C4_OneDispatchPerCall ==
    \A e \in ExchangeIds :
        (pc[e] \in AfterToolRound /\ rounds[e] = 1) =>
            /\ Len(tool_messages[e]) = Cardinality(CallsRequested(e))
            /\ Len(dispatched[e]) = Cardinality(CallsRequested(e))

\* C5: a provider failure ends the exchange in ERROR with an error reported,
\* the user turn still persisted and no assistant turn persisted
C5_ProviderFailureKeepsUserTurnOnly ==
    \A e \in ExchangeIds :
        fault[e] = "provider" =>
            /\ pc[e] = "ERROR"
            /\ events[e][Len(events[e])].type \in {"error", "http_500"}
            /\ Len(RowsOf(e)) = 1
            /\ RowsOf(e)[1].role = "user"
            /\ RowsOf(e)[1].content = request[e].message

C5_Witness ==
    \E e \in ExchangeIds :
        /\ fault[e] = "provider"
        /\ request[e].mode = "stream"
        /\ stream[e][2] = "failed"
        /\ assistant_message[e] # EmptyStr
        /\ Len(RowsOf(e)) = 1

\* the rows two concurrent exchanges added to conversation "c1"
NewRows == SelectSeq(db_messages, LAMBDA m : m.conversation_id = "c1" /\ m.xid # 0)

\* C6: exchanges on one conversation are serialized: a persisted user turn is
\* followed by the assistant turn of its own exchange, and the context of an
\* exchange holds no user turn of the other one without a reply after it
C6_ExchangesSerialized ==
    /\ \A i \in 1..Len(NewRows) :
          (NewRows[i].role = "user" /\ i < Len(NewRows)) =>
              /\ NewRows[i + 1].role = "assistant"
              /\ NewRows[i + 1].xid = NewRows[i].xid
    /\ \A e \in ExchangeIds : \A o \in ExchangeIds \ {e} :
          sent[e] # << >> =>
              LET m == sent[e][1]
              IN  \A i \in 1..Len(m) :
                    m[i] = [role |-> "user", content |-> request[o].message] =>
                        (i < Len(m) /\ m[i + 1].role = "assistant")

IsSuffix(s, t) == Len(s) <= Len(t) /\ s = SubSeq(t, Len(t) - Len(s) + 1, Len(t))

\* the rows get_conversation_messages read for the only exchange of Spec
HistoryRead(e) ==
    IF request[e].conversation_id = NoConv THEN << >>
    ELSE get_conversation_messages(request[e].conversation_id, db_messages)

\* C7: the first request starts with the system prompt, ends with the new
\* user turn and holds retained prior turns, in order, in between
C7_SystemFirstUserLast ==
    \A e \in ExchangeIds :
        sent[e] # << >> =>
            LET m == sent[e][1]
            IN  /\ m[1] = [role |-> "system", content |-> get_system_prompt(prompt)]
                /\ m[Len(m)] = [role |-> "user", content |-> request[e].message]
                /\ \E h \in {SubSeq(HistoryRead(e), 1, j) : j \in 0..Len(HistoryRead(e))} :
                      IsSuffix(SubSeq(m, 2, Len(m) - 1), h)

RECURSIVE SumTokens(_)
SumTokens(msgs) ==
    IF msgs = << >> THEN 0
    ELSE get_token_count(msgs[1].content) + SumTokens(Tail(msgs))

LastOf(s, j) == SubSeq(s, Len(s) - j + 1, Len(s))

\* C8: of a list that starts with a system turn, truncate_messages keeps the
\* system turn and exactly the longest suffix of the other turns that fits
\* the budget together with it, in the original order
C8_KeepsSystemAndLongestSuffix ==
    (t_result # << >> /\ t_messages # << >> /\ t_messages[1].role = "system") =>
        LET system == t_messages[1]
            others == Tail(t_messages)
            result == t_result[1]
            fits == {j \in 0..Len(others) :
                       get_token_count(system.content) + SumTokens(LastOf(others, j))
                           <= t_max_tokens}
            k == IF fits = {} THEN 0 ELSE CHOOSE j \in fits : \A i \in fits : i <= j
        IN  /\ Cardinality({i \in 1..Len(result) : result[i] = system}) = 1
            /\ SelectSeq(result, LAMBDA m : m.role # "system") = LastOf(others, k)
            /\ Len(result) = k + 1

C8_Witness ==
    /\ t_result # << >>
    /\ t_messages # << >>
    /\ t_messages[1].role = "system"
    /\ Len(t_result[1]) > 1
    /\ Len(t_result[1]) < Len(t_messages)

\* C9 (state part): at most two completion requests and one tool round per
\* exchange; an exchange whose follow-up asked for tools again and that ended
\* without a failure is DONE, its assistant turn persisted and reported
C9_Bounded ==
    \A e \in ExchangeIds :
        /\ Len(sent[e]) <= 2
        /\ rounds[e] <= 1
        /\ Len(dispatched[e]) <= Len(tool_calls_buffer[e])
        /\ (delivered[e].followup_tools /\ pc[e] \in Terminal /\ fault[e] = "") =>
              /\ pc[e] = "DONE"
              /\ Len(RowsOf(e)) = 2
              /\ RowsOf(e)[2].role = "assistant"
              /\ events[e][Len(events[e])].type \in {"done", "response"}

\* C9: the bounds above hold throughout, and an exchange whose follow-up
\* asked for tools again still reaches DONE unless a failure or a
\* cancellation ends it
C9_SingleToolRound ==
    /\ []C9_Bounded
    /\ \A e \in ExchangeIds :
          (delivered[e].followup_tools /\ fault[e] = "")
              ~> (pc[e] = "DONE" \/ fault[e] # "")

C9_Witness ==
    \E e \in ExchangeIds :
        /\ delivered[e].followup_tools
        /\ pc[e] = "DONE"
        /\ request[e].mode = "stream"
        /\ Len(sent[e]) = 2
        /\ Len(dispatched[e]) >= 1

\* C10: after a cancellation that follows at least one content fragment the
\* content generated so far is persisted (or its save was tried and failed)
\* and no provider stream of the exchange is left unclosed
C10_CancelPersistsAndReleases ==
    \A e \in ExchangeIds :
        (pc[e] = "CANCELLED" /\ ContentEvents(e) # << >>) =>
            /\ \E i \in 1..Len(RowsOf(e)) : RowsOf(e)[i].role = "assistant"
            /\ \A k \in 1..2 : stream[e][k] \notin {"open", "dropped"}

\* C11: an exchange with one round of N >= 1 tool calls that reaches DONE has
\* persisted 2 + N turns (user, assistant tool-call turn, one tool-result
\* turn per call) and then one follow-up assistant turn
C11_ToolRoundPersistsAllTurns ==
    \A e \in ExchangeIds :
        (pc[e] = "DONE" /\ rounds[e] = 1 /\ Len(tool_messages[e]) >= 1) =>
            LET n == Len(tool_messages[e])
                rows == RowsOf(e)
            IN  /\ Len(rows) = 2 + n + 1
                /\ rows[1].role = "user"
                /\ rows[2].role = "assistant"
                /\ \A i \in 1..n : rows[2 + i].role = "tool"
                /\ rows[n + 3].role = "assistant"

\* C12: execute_tool with a name that is not registered returns an error
\* payload without a success flag, whatever the arguments are, raises
\* nothing and enters no handler
C12_UnknownToolFails ==
    (dispatch.pc = "returned" /\ dispatch.tool_name \notin available_tools) =>
        /\ "error" \in DOMAIN dispatch.result
        /\ "success" \notin DOMAIN dispatch.result
        /\ "raised" \notin DOMAIN dispatch.result
        /\ dispatch.outcome = "not_invoked"

C12_Witness ==
    /\ dispatch.pc = "returned"
    /\ dispatch.tool_name = "no_such_tool"
    /\ DOMAIN dispatch.arguments = {"query", "limit"}
    /\ "error" \in DOMAIN dispatch.result

\* do the arguments (a dict) differ from the parameter schema of the tool:
\* a required parameter missing, a parameter the schema does not list, or a
\* value that has not the type the schema gives its parameter
SchemaMismatch(name, arguments) ==
    \/ ~ (SchemaRequired(name) \subseteq DOMAIN arguments)
    \/ ~ (DOMAIN arguments \subseteq DOMAIN SchemaProperties(name))
    \/ \E p \in DOMAIN arguments \cap DOMAIN SchemaProperties(name) :
          ~ HasType(arguments[p], SchemaProperties(name)[p])

\* C13: arguments that do not fit the parameter schema of a registered tool
\* give a failure result and the handler is not entered
C13_SchemaCheckedBeforeInvoke ==
    (/\ dispatch.pc = "returned"
     /\ dispatch.tool_name \in available_tools
     /\ IsDict(dispatch.arguments)
     /\ SchemaMismatch(dispatch.tool_name, dispatch.arguments)) =>
        /\ "error" \in DOMAIN dispatch.result
        /\ "success" \notin DOMAIN dispatch.result
        /\ dispatch.outcome = "not_invoked"

\* C14: a check_product_availability call whose product does not exist gets
\* an error payload without a success flag as its tool-result turn, and the
\* exchange still runs the follow-up completion with that turn and persists
\* an assistant turn
C14_MissingProductFailsExchangeCompletes ==
    \A e \in ExchangeIds : \A i \in 1..Len(tool_messages[e]) :
        (/\ dispatched[e][i].call.function.name = "check_product_availability"
         /\ dispatched[e][i].outcome = "miss") =>
            /\ IsErrorPayload(tool_messages[e][i].content)
            /\ "success" \notin DOMAIN tool_messages[e][i].content.json
            /\ pc[e] = "DONE" =>
                  /\ Len(sent[e]) = 2
                  /\ \E k \in 1..Len(sent[e][2]) : sent[e][2][k] = tool_messages[e][i]
                  /\ RowsOf(e)[Len(RowsOf(e))].role = "assistant"

\* C15 (safety part of one step): an iteration that is followed by another
\* one has moved the cursor forward
C15_CursorAdvances ==
    (splitter.pc = "search" /\ splitter'.pc = "search") =>
        splitter'.current_pos > splitter.current_pos

SplitOfLongText ==
    splitter.pc = "returned" /\ Len(splitter.text) > splitter.max_chunk_size

\* C16: no chunk of a text longer than max_chunk_size is longer than
\* max_chunk_size plus the search window min(200, max_chunk_size / 4)
C16_ChunkLengthBounded ==
    SplitOfLongText =>
        \A i \in 1..Len(splitter.chunks) :
            Len(splitter.chunks[i].content)
                <= splitter.max_chunk_size
                   + Min2(SearchWindowCap, splitter.max_chunk_size \div 4)

C16_Witness ==
    /\ SplitOfLongText
    /\ splitter.max_chunk_size = LongSize
    /\ Len(splitter.chunks) >= 2
    /\ \E i \in 1..Len(splitter.chunks) :
          Len(splitter.chunks[i].content) = splitter.max_chunk_size
    /\ \E i \in 1..Len(splitter.chunks) :
          Len(splitter.chunks[i].content) < splitter.max_chunk_size - 1

Drop(text, n) == SubSeq(text, n + 1, Len(text))

\* the chunks in order, each after the first without as many leading
\* characters as it records as its overlap with the one before
Reconstruct(chunks) ==
    Concat([i \in 1..Len(chunks) |->
              IF i = 1 THEN chunks[i].content
              ELSE Drop(chunks[i].content, chunks[i].metadata.overlap_with_previous)])

\* C17: the chunks of a text longer than max_chunk_size, overlaps removed
\* and concatenated in order, are the cleaned text
C17_ReconstructsCleanedText ==
    SplitOfLongText => Reconstruct(splitter.chunks) = splitter.text

\* C18: the chunk_index values of the returned list are 0, 1, ..., n - 1 in
\* list order
C18_IndicesContiguous ==
    splitter.pc = "returned" =>
        \A i \in 1..Len(splitter.chunks) : splitter.chunks[i].chunk_index = i - 1

\* C19: within every returned chunk chunk_start < chunk_end, and from each
\* chunk to the next both chunk_start and chunk_end grow
C19_OffsetsIncrease ==
    SplitOfLongText =>
        LET chunks == splitter.chunks
        IN  /\ \A i \in 1..Len(chunks) :
                  chunks[i].metadata.chunk_start < chunks[i].metadata.chunk_end
            /\ \A i \in 1..(Len(chunks) - 1) :
                  /\ chunks[i].metadata.chunk_start < chunks[i + 1].metadata.chunk_start
                  /\ chunks[i].metadata.chunk_end < chunks[i + 1].metadata.chunk_end

\* a search with an overlap of a whole chunk or more that chose the same
\* split point twice
C19_Witness ==
    /\ SplitOfLongText
    /\ splitter.chunk_overlap >= splitter.max_chunk_size
    /\ Len(splitter.chunks) >= 3
    /\ \E i \in 1..(Len(splitter.split_points) - 1) :
          splitter.split_points[i] = splitter.split_points[i + 1]

\* C20: empty or whitespace-only content gives the empty list; any other
\* content whose cleaned length is at most max_chunk_size gives one chunk:
\* the cleaned content, index 0 of 1, the original title, flagged complete
C20_SmallDocumentSingleChunk ==
    splitter.pc = "returned" =>
        /\ strip(splitter.content) = << >> => splitter.chunks = << >>
        /\ (/\ strip(splitter.content) # << >>
            /\ Len(_clean_content(splitter.content)) <= splitter.max_chunk_size) =>
              /\ Len(splitter.chunks) = 1
              /\ splitter.chunks[1].content = _clean_content(splitter.content)
              /\ splitter.chunks[1].chunk_index = 0
              /\ splitter.chunks[1].total_chunks = 1
              /\ splitter.chunks[1].title = splitter.title
              /\ splitter.chunks[1].metadata.is_complete_document

C20_Witness ==
    /\ splitter.pc = "returned"
    /\ Len(splitter.chunks) = 1
    /\ splitter.chunks[1].content # splitter.content
    /\ Len(splitter.content) > splitter.max_chunk_size
    /\ splitter.chunks[1].metadata.is_complete_document

\* find_optimal_split_points run to its end in one evaluation: the split
\* points, or << >> when the lookup of the structure fails
RECURSIVE SearchFrom(_, _, _, _, _, _)
SearchFrom(text, structure, max_chunk_size, chunk_overlap, current_pos, split_points) ==
    LET text_length == Len(text)
        target_end == Min2(current_pos + max_chunk_size, text_length)
        best_split == _find_best_split_point(text, current_pos, target_end, structure)
    IN  IF ~ (current_pos < text_length) THEN split_points
        ELSE IF target_end >= text_length THEN Append(split_points, text_length)
        ELSE IF "paragraphs" \notin DOMAIN structure THEN << >>
        ELSE SearchFrom(text, structure, max_chunk_size, chunk_overlap,
                        NextCursor(best_split, chunk_overlap, current_pos),
                        Append(split_points, best_split))

\* the outcome of a whole run of split_document on a text
SplitOf(content, title, max_chunk_size, chunk_overlap, preserve_structure) ==
    LET text == _clean_content(content)
        structure == IF preserve_structure THEN detect_document_structure(text)
                     ELSE << >>
        split_points == SearchFrom(text, structure, max_chunk_size, chunk_overlap,
                                   0, <<0>>)
    IN  IF strip(content) = << >> THEN [pc |-> "returned", chunks |-> << >>]
        ELSE IF Len(text) <= max_chunk_size
        THEN [pc |-> "returned", chunks |-> <<SingleChunk(title, text)>>]
        ELSE IF split_points = << >> THEN [pc |-> "raised", chunks |-> << >>]
        ELSE [pc |-> "returned",
              chunks |-> CreateChunksFrom(0, text, title, split_points, chunk_overlap)]

\* C21: cleaning a cleaned text changes nothing, and a run of split_document
\* gives the same chunks (boundaries and contents) as a second run with the
\* same parameters and as a run on the cleaned text
C21_SplitIdempotentOnCleaned ==
    splitter.pc \in {"returned", "raised"} =>
        LET cleaned == _clean_content(splitter.content)
            outcome == [pc |-> splitter.pc, chunks |-> splitter.chunks]
        IN  /\ _clean_content(cleaned) = cleaned
            /\ outcome = SplitOf(splitter.content, splitter.title,
                                 splitter.max_chunk_size, splitter.chunk_overlap,
                                 splitter.preserve_structure)
            /\ outcome = SplitOf(cleaned, splitter.title,
                                 splitter.max_chunk_size, splitter.chunk_overlap,
                                 splitter.preserve_structure)

\* a text that cleaning shortens was split into several chunks
C21_Witness ==
    /\ splitter.pc = "returned"
    /\ _clean_content(splitter.content) # splitter.content
    /\ Len(splitter.chunks) >= 2

\* C26: a call with preserve_structure false on a text whose cleaned length
\* exceeds max_chunk_size does not fail and returns a list of chunks that
\* is not empty
C26_UnstructuredSplitReturns ==
    (/\ splitter.pc \in {"search", "chunks", "returned", "raised"}
     /\ ~ splitter.preserve_structure
     /\ Len(splitter.text) > splitter.max_chunk_size) =>
        /\ splitter.pc # "raised"
        /\ splitter.pc = "returned" => splitter.chunks # << >>

\* the split point the preference order names for a window that starts at
\* the cursor and does not reach the end of the text
PreferredSplit(text, structure, cursor, max_chunk_size) ==
    LET target == cursor + max_chunk_size
        w == Min2(200, max_chunk_size \div 4)
        range == (target - w)..target
        paragraphs == {At(structure.paragraphs, n) :
                          n \in 0..(Len(structure.paragraphs) - 1)} \cap range
        sentences == {At(structure.sentences, n) :
                         n \in 0..(Len(structure.sentences) - 1)} \cap range
        blanks == {i \in range : IsSpace(At(text, i))}
    IN  IF paragraphs # {} THEN MaxOf(paragraphs)
        ELSE IF sentences # {} THEN MaxOf(sentences)
        ELSE IF blanks # {} THEN MaxOf(blanks)
        ELSE target

\* C25: an iteration of the search whose window does not reach the end of
\* the text appends the last paragraph boundary of [target - w, target],
\* else the last sentence boundary there, else the last whitespace position
\* there, else the target itself
C25_SplitPointPreference ==
    [][(/\ splitter.pc = "search"
        /\ splitter'.pc = "search"
        /\ Len(splitter'.split_points) = Len(splitter.split_points) + 1) =>
          splitter'.split_points[Len(splitter'.split_points)] =
              PreferredSplit(splitter.text, splitter.structure,
                             splitter.current_pos, splitter.max_chunk_size)]_vars

\* C24: the terminal error event does not carry the text of the exception
\* that ended the exchange: exchanges that fail with different exception
\* texts emit the same events
C24_ErrorEventHidesDetail ==
    \A e \in ExchangeIds :
        \A i \in 1..Len(events[e]) :
            events[e][i].type \in {"error", "http_500"} =>
                events[e][i].data # ExceptionText(fault[e])

\* the positions of a request that hold the new user turn of exchange e
UserTurnAt(e, m) ==
    {i \in 1..Len(m) : m[i] = [role |-> "user", content |-> request[e].message]}

\* C30: the first completion request holds the new user turn exactly once,
\* for a new conversation and for a continued one
C30_UserTurnOnce ==
    \A e \in ExchangeIds :
        sent[e] # << >> => Cardinality(UserTurnAt(e, sent[e][1])) = 1

\* the positions of the tool-status event among the events of exchange e
ToolEventsIn(evs) == {i \in 1..Len(evs) : evs[i].type = "tool_calls"}

\* the follow-up request of exchange e is the first request, the assistant
\* turn with the frozen calls and one result turn per call, in call order
FollowUpWellFormed(e) ==
    LET first == sent[e][1]
        second == sent[e][2]
        calls == tool_calls_buffer[e]
        n == Len(first)
    IN  /\ Len(second) = n + 1 + Len(calls)
        /\ SubSeq(second, 1, n) = first
        /\ second[n + 1].role = "assistant"
        /\ second[n + 1].tool_calls = calls
        /\ \A i \in 1..Len(calls) :
              /\ second[n + 1 + i].role = "tool"
              /\ second[n + 1 + i].tool_call_id = calls[i].id

\* an event is appended in its place: the tool-status event once and before
\* the follow-up is requested, a content event of the first stream before it
\* and a content event of the follow-up after it
EventInPlace(e) ==
    Len(events'[e]) = Len(events[e]) + 1 =>
        LET ev == events'[e][Len(events'[e])]
        IN  /\ ev.type = "tool_calls" =>
                  ToolEventsIn(events[e]) = {} /\ Len(sent[e]) = 1
            /\ (ev.type = "content" /\ Len(sent[e]) = 1) =>
                  ToolEventsIn(events[e]) = {}
            /\ (ev.type = "content" /\ Len(sent[e]) = 2) =>
                  Cardinality(ToolEventsIn(events[e])) = 1

\* C27: the follow-up request is the first request unchanged, then the
\* assistant turn with the frozen tool calls, then one tool-result turn per
\* call in arrival order under the id of its call; the tool-status event is
\* emitted once, after the content events of the first stream and before
\* those of the follow-up
C27_FollowUpRequestAndToolEvent ==
    /\ [](\A e \in ExchangeIds :
             /\ Len(sent[e]) <= 2
             /\ Len(sent[e]) = 2 =>
                   /\ FollowUpWellFormed(e)
                   /\ request[e].mode = "stream" =>
                         Cardinality(ToolEventsIn(events[e])) = 1)
    /\ [][\A e \in ExchangeIds : EventInPlace(e)]_vars

\* a streamed exchange with two frozen calls sent content, then the
\* tool-status event, then follow-up content
C27_Witness ==
    \E e \in ExchangeIds :
        /\ request[e].mode = "stream"
        /\ Len(sent[e]) = 2
        /\ Len(tool_calls_buffer[e]) = 2
        /\ \E i \in ToolEventsIn(events[e]) :
              /\ \E j \in 1..(i - 1) : events[e][j].type = "content"
              /\ \E k \in (i + 1)..Len(events[e]) : events[e][k].type = "content"

\* the positions of the terminal events among the events of exchange e
TerminalEventsIn(evs) == {i \in 1..Len(evs) : evs[i].type \in {"done", "error"}}

\* C28: a streamed exchange that ends without being cancelled has emitted
\* exactly one terminal event, done or error, as its last event; done
\* follows the persisted assistant turn; when that persistence fails the
\* terminal event is error and the content events sent before it stay
C28_OneTerminalEvent ==
    \A e \in ExchangeIds :
        request[e].mode = "stream" =>
            LET evs == events[e]
                terms == TerminalEventsIn(evs)
                rows == RowsOf(e)
            IN  /\ terms \subseteq {Len(evs)}
                /\ pc[e] \in {"DONE", "ERROR"} <=> terms # {}
                /\ pc[e] = "DONE" <=> (terms # {} /\ evs[Len(evs)].type = "done")
                /\ pc[e] = "DONE" =>
                      /\ rows # << >>
                      /\ rows[Len(rows)].role = "assistant"
                      /\ rows[Len(rows)].content = assistant_message[e]
                /\ (pc[e] = "ERROR" /\ fault[e] = "persistence") =>
                      /\ evs[Len(evs)].type = "error"
                      /\ \A i \in 1..Len(rows) : rows[i].role # "assistant"
                      /\ StreamedContent(e) = assistant_message[e]

\* content was streamed, the assistant turn could not be saved and the
\* stream ended with an error event
C28_Witness ==
    \E e \in ExchangeIds :
        /\ request[e].mode = "stream"
        /\ pc[e] = "ERROR"
        /\ fault[e] = "persistence"
        /\ ContentEvents(e) # << >>
        /\ Len(RowsOf(e)) = 1
        /\ events[e][Len(events[e])].type = "error"

\* C22: a search converts each distance d of the backend's list to the score
\* 1 - d, returns exactly the matches whose score is not below min_score,
\* and returns them in non-increasing score order
C22_SearchFilteredAndRanked ==
    (vector_store.pc = "on" /\ vector_store.last.op = "search") =>
        LET backend == vector_store.last.backend
            results == vector_store.last.results
            min_score == vector_store.last.min_score
            passing == SelectSeq(backend, LAMBDA rec : Hundred - rec.distance >= min_score)
        IN  /\ Len(results) = Len(passing)
            /\ \A i \in 1..Len(results) :
                  /\ results[i].vector_id = passing[i].id
                  /\ results[i].score = Hundred - passing[i].distance
                  /\ results[i].score >= min_score
            /\ \A i \in 1..Len(results) : \A j \in 1..Len(results) :
                  i < j => results[i].score >= results[j].score

\* a search dropped one of three matches for its score and returned the
\* other two, which differ in score
C22_Witness ==
    /\ vector_store.pc = "on"
    /\ vector_store.last.op = "search"
    /\ Len(vector_store.last.backend) = 3
    /\ Len(vector_store.last.results) = 2
    /\ vector_store.last.results[1].score > vector_store.last.results[2].score

\* the collection names a tenant's calls address
NamesOf(tenant_id) == {get_collection_name(tenant_id, c) : c \in CollectionTypes}

\* the records that were added under a tenant, with the collection of each
AddedUnder(vs, tenant_id) ==
    UNION {{<<name, rec>> : rec \in {r \in vs.client[name] : r.owner = tenant_id}} :
              name \in DOMAIN vs.client}

\* two distinct (tenant, collection type) pairs have distinct names
NamesDistinct ==
    \A t1 \in TenantIds, t2 \in TenantIds :
        \A c1 \in CollectionTypes, c2 \in CollectionTypes :
            <<t1, c1>> # <<t2, c2>> =>
                get_collection_name(t1, c1) # get_collection_name(t2, c2)

\* a call of tenant t leaves the collections and the records of the other
\* tenants as they were
OthersUntouched(t) ==
    (vector_store'.ops = vector_store.ops + 1 /\ vector_store'.last.tenant_id = t) =>
        \A u \in TenantIds \ {t} :
            /\ AddedUnder(vector_store', u) = AddedUnder(vector_store, u)
            /\ DOMAIN vector_store'.client \cap NamesOf(u)
                  = DOMAIN vector_store.client \cap NamesOf(u)

\* C23: the names of two distinct (tenant, collection) pairs differ; every
\* record lies in a collection of the tenant it was added under; a search
\* returns records of the calling tenant only; and a call of a tenant,
\* delete_tenant_collections included, leaves the records and collections
\* of every other tenant unchanged
C23_TenantNamespacesDisjoint ==
    /\ [](vector_store.pc = "on" =>
             /\ NamesDistinct
             /\ \A name \in DOMAIN vector_store.client :
                   \A rec \in vector_store.client[name] : name \in NamesOf(rec.owner)
             /\ \A i \in 1..Len(vector_store.last.results) :
                   vector_store.last.results[i].owner = vector_store.last.tenant_id)
    /\ [][vector_store.pc = "on" => \A t \in TenantIds : OthersUntouched(t)]_vars

\* a tenant deleted its two collections while another tenant, whose id
\* shares a prefix with it, keeps a record
C23_Witness ==
    /\ vector_store.pc = "on"
    /\ vector_store.last.op = "delete_tenant"
    /\ vector_store.last.ok
    /\ Cardinality(vector_store.last.deleted) = 2
    /\ NamesOf(vector_store.last.tenant_id) \cap DOMAIN vector_store.client = {}
    /\ \E u \in TenantIds \ {vector_store.last.tenant_id} :
          AddedUnder(vector_store, u) # {}

\* the ids of the entities an answer of execute_tool holds
EntityIds(result) ==
    IF "data" \notin DOMAIN result THEN {}
    ELSE LET data == result.data
         IN  IF "list" \in DOMAIN data
             THEN {data.list[i].id : i \in 1..Len(data.list)}
             ELSE IF "id" \in DOMAIN data THEN {data.id}
             ELSE IF "product_name" \in DOMAIN data THEN {data.product_name}
             ELSE {}

\* the stores without the data of the tenants other than t
OwnRows(db, t) ==
    [products |-> {p \in db.products : p.tenant_id = t},
     knowledge |-> {k \in db.knowledge : k.tenant_id = t}]

OwnCollections(vs, t) ==
    [vs EXCEPT !.client = [name \in {n \in DOMAIN vs.client : n \in NamesOf(t)} |->
                              vs.client[name]],
               !._collections = @ \cap NamesOf(t)]

\* the handler was called with the tenant id and the session of the caller
CalledForCaller ==
    \A i \in 1..Len(dispatch.called) :
        /\ dispatch.called[i].tenant_id = dispatch.tenant_id
        /\ dispatch.called[i].db = "Session"

\* every entity of the answer is a row of the calling tenant
EntitiesOfCaller ==
    \A id \in EntityIds(dispatch.result) :
        \/ \E p \in dispatch.db.products : p.id = id /\ p.tenant_id = dispatch.tenant_id
        \/ \E k \in dispatch.db.knowledge : k.id = id /\ k.tenant_id = dispatch.tenant_id

\* the answer is the one the same dispatch gets without the other tenants' data
IndependentOfOthers ==
    dispatch.result \in
        {r.result : r \in ExecuteToolOn(dispatch.tool_name, dispatch.arguments,
                                        dispatch.tenant_id,
                                        OwnRows(dispatch.db, dispatch.tenant_id),
                                        OwnCollections(vector_store, dispatch.tenant_id))}

\* the dispatch left the rows of the structured store and the collections
\* of the vector index as they were
StoresUnwritten ==
    (dispatch.pc = "scoped" /\ dispatch'.pc = "answered") =>
        /\ dispatch'.db = dispatch.db
        /\ vector_store'.client = vector_store.client

\* C29: execute_tool calls the handler with the calling tenant's id whatever
\* the model-supplied arguments hold; every entity of the answer belongs to
\* the calling tenant; the answer does not depend on the data of other
\* tenants; and the dispatch writes neither to the structured store nor to
\* the vector index
C29_DispatchScopedAndReadOnly ==
    /\ [](dispatch.pc = "answered" =>
             CalledForCaller /\ EntitiesOfCaller /\ IndependentOfOthers)
    /\ [][StoresUnwritten]_vars

====
